---- MODULE Spec2Model ----
(***************************************************************************)
(* Model of the token-usage attribution pipeline of the metrics scripts:   *)
(*   - tokenExtractor.js  (per-transcript attribution, cross-file merge)   *)
(*   - merge_analytics    (CSV merge with composite-key deduplication)     *)
(*   - dashboard loader   (sessions / costs deduplication)                 *)
(*   - dateUtils / tokensPerStoryPoint (week membership, weekly buckets)   *)
(* Strings are sequences of one-character strings, so that the regular     *)
(* expressions and the key concatenations of the source are computed, not  *)
(* assumed.                                                                *)
(***************************************************************************)
EXTENDS Integers, Sequences, FiniteSets, TLC

\* ------------------------------------------------------------------ bounds
MaxLines == 4
MaxFiles == 2
NumFiles == 3
NumSources == 2

\* ----------------------------------------------------------------- strings
\* JS null / undefined / '' for a string-valued slot: all three are falsy.
Null == << >>

UpperLetters == <<"A","B","C","D","E","F","G","H","I","J","K","L","M",
                  "N","O","P","Q","R","S","T","U","V","W","X","Y","Z">>
LowerLetters == <<"a","b","c","d","e","f","g","h","i","j","k","l","m",
                  "n","o","p","q","r","s","t","u","v","w","x","y","z">>
Digits == {"0","1","2","3","4","5","6","7","8","9"}

IsUpper(c) == \E i \in 1..26 : UpperLetters[i] = c
IsLower(c) == \E i \in 1..26 : LowerLetters[i] = c
IsDigit(c) == c \in Digits

\* String.prototype.toUpperCase, one character
UpperChar(c) ==
  IF IsLower(c) THEN UpperLetters[CHOOSE i \in 1..26 : LowerLetters[i] = c] ELSE c

toUpperCase(s) == [i \in 1..Len(s) |-> UpperChar(s[i])]

\* [A-Z] with or without the /i flag
IsKeyLetter(c, ignoreCase) == IsUpper(c) \/ (ignoreCase /\ IsLower(c))

\* End of the maximal run of characters satisfying a class, starting at i
\* (i - 1 when s[i] is not in the class).
RECURSIVE LettersEnd(_, _, _)
LettersEnd(s, i, ignoreCase) ==
  IF i <= Len(s) /\ IsKeyLetter(s[i], ignoreCase)
  THEN LettersEnd(s, i + 1, ignoreCase) ELSE i - 1

RECURSIVE DigitsEnd(_, _)
DigitsEnd(s, i) ==
  IF i <= Len(s) /\ IsDigit(s[i]) THEN DigitsEnd(s, i + 1) ELSE i - 1

\* Whether /([A-Z]+-\d+)/ matches at position i, and where the match ends.
\* [A-Z]+ is greedy and what follows it must be '-', so only the maximal
\* letter run can match.
TicketEndAt(s, i, ignoreCase) ==
  LET j == LettersEnd(s, i, ignoreCase) IN
  IF j >= i /\ j + 2 <= Len(s) /\ s[j + 1] = "-" /\ IsDigit(s[j + 2])
  THEN DigitsEnd(s, j + 2) ELSE 0

\* text.match(/([A-Z]+-\d+)/) : the leftmost match, Null when there is none
TicketMatch(s, ignoreCase) ==
  LET starts == {i \in 1..Len(s) : TicketEndAt(s, i, ignoreCase) > 0} IN
  IF starts = {} THEN Null
  ELSE LET i == CHOOSE k \in starts : \A m \in starts : k <= m
       IN SubSeq(s, i, TicketEndAt(s, i, ignoreCase))

\* ------------------------------------------------- tokenExtractor.js helpers
extractTicketFromBranch_AsWritten(branch) ==
  IF branch = Null THEN Null
  ELSE TicketMatch(branch, TRUE)

\* extractTicketFromBranch: /([A-Z]+-\d+)/i, match[0] upper-cased
extractTicketFromBranch(branch) ==
  IF branch = Null THEN Null
  ELSE toUpperCase(TicketMatch(branch, TRUE))

OpenTag == <<"<","c","o","m","m","a","n","d","-","a","r","g","s",">">>
CloseTag == <<"<","/","c","o","m","m","a","n","d","-","a","r","g","s",">">>

HasAt(s, i, lit) ==
  i + Len(lit) - 1 <= Len(s) /\ SubSeq(s, i, i + Len(lit) - 1) = lit

\* End of the maximal run of [^<] starting at i (i - 1 when there is none)
RECURSIVE NotLtEnd(_, _)
NotLtEnd(s, i) ==
  IF i <= Len(s) /\ s[i] # "<" THEN NotLtEnd(s, i + 1) ELSE i - 1

\* contentStr.match(/<command-args>([^<]+)<\/command-args>/)[1], Null when
\* there is no match: the leftmost opening tag followed by a non-empty run
\* without '<' and the closing tag.
CommandArgs(s) ==
  LET ok(i) == /\ HasAt(s, i, OpenTag)
               /\ NotLtEnd(s, i + Len(OpenTag)) >= i + Len(OpenTag)
               /\ HasAt(s, NotLtEnd(s, i + Len(OpenTag)) + 1, CloseTag)
      starts == {i \in 1..Len(s) : ok(i)}
  IN IF starts = {} THEN Null
     ELSE LET i == CHOOSE k \in starts : \A m \in starts : k <= m
          IN SubSeq(s, i + Len(OpenTag), NotLtEnd(s, i + Len(OpenTag)))

\* JSON.stringify of a string: quotes and backslashes are escaped
RECURSIVE JsonEscape(_)
JsonEscape(s) ==
  IF s = << >> THEN << >>
  ELSE (IF Head(s) \in {"\"", "\\"} THEN <<"\\", Head(s)>> ELSE <<Head(s)>>)
       \o JsonEscape(Tail(s))

BlockPrefix == <<"{","\"","t","y","p","e","\"",":","\"","t","e","x","t","\"",",",
                 "\"","t","e","x","t","\"",":","\"">>
BlockSuffix == <<"\"","}">>

\* JSON.stringify of an array of {type:'text', text} blocks
RECURSIVE JsonBlocks(_)
JsonBlocks(items) ==
  IF items = << >> THEN << >>
  ELSE BlockPrefix \o JsonEscape(Head(items)) \o BlockSuffix
       \o (IF Len(items) > 1 THEN <<",">> ELSE << >>) \o JsonBlocks(Tail(items))

JsonStringify(items) == <<"[">> \o JsonBlocks(items) \o <<"]">>

\* A message content is [kind, text, items]: kind "none" (absent or null),
\* "string" (text), "array" (items, a sequence of text blocks) or "object".
ContentTruthy(content) ==
  \/ content.kind \in {"array", "object"}
  \/ content.kind = "string" /\ content.text # Null

\* extractTicketFromWorkflow
extractTicketFromWorkflow(content) ==
  IF ~ContentTruthy(content) THEN Null
  ELSE LET contentStr == CASE content.kind = "string" -> content.text
                           [] content.kind = "array" -> JsonStringify(content.items)
                           [] OTHER -> << >>
           args == CommandArgs(contentStr)
       IN IF args # Null THEN toUpperCase(TicketMatch(args, TRUE)) ELSE Null

\* --------------------------------------------------- transcript line inputs
B_main == <<"m","a","i","n">>
B_ab1 == <<"f","/","a","b","-","1">>
B_cd2 == <<"C","D","-","2","-","x">>
T_AB1 == <<"A","B","-","1">>
T_CD2 == <<"C","D","-","2">>
T_EF3 == <<"E","F","-","3">>

Branches == {Null, B_main, B_ab1, B_cd2}

C_none == [kind |-> "none", text |-> Null, items |-> << >>]
C_text == [kind |-> "string", text |-> <<"h","i">>, items |-> << >>]
C_cmdCD2 ==
  [kind |-> "string", text |-> <<"r","u","n"," ">> \o OpenTag \o T_CD2 \o CloseTag,
   items |-> << >>]
C_cmdEF3 ==
  [kind |-> "array", text |-> Null,
   items |-> << OpenTag \o <<"e","f","-","3"," ","g","o">> \o CloseTag >>]
C_cmdNoTicket ==
  [kind |-> "string", text |-> OpenTag \o <<"g","o">> \o CloseTag, items |-> << >>]

Contents == {C_none, C_text, C_cmdCD2, C_cmdEF3, C_cmdNoTicket}

NoUsage == [f \in {} |-> 0]
U_io == [f \in {"input_tokens", "output_tokens"} |->
           IF f = "input_tokens" THEN 1 ELSE 2]
U_all == [f \in {"input_tokens", "output_tokens", "cache_creation_input_tokens",
                 "cache_read_input_tokens", "thinking_output_tokens"} |->
            IF f = "input_tokens" THEN 0 ELSE 1]

BadLine ==
  [parse |-> FALSE, type |-> "none", gitBranch |-> Null, hasMessage |-> FALSE,
   content |-> C_none, hasUsage |-> FALSE, usage |-> NoUsage]

\* The lines a transcript can hold: unparseable text, events without a
\* message (branch changes), user events (workflow commands), assistant
\* events with and without usage, with and without signals of their own.
Lines ==
  {BadLine}
  \cup [parse : {TRUE}, type : {"system"}, gitBranch : Branches,
        hasMessage : {FALSE}, content : {C_none}, hasUsage : {FALSE},
        usage : {NoUsage}]
  \cup [parse : {TRUE}, type : {"user"}, gitBranch : {Null},
        hasMessage : {TRUE}, content : Contents, hasUsage : {FALSE},
        usage : {NoUsage}]
  \cup [parse : {TRUE}, type : {"user"}, gitBranch : {B_ab1},
        hasMessage : {TRUE}, content : {C_cmdCD2}, hasUsage : {FALSE},
        usage : {NoUsage}]
  \cup [parse : {TRUE}, type : {"user"}, gitBranch : {Null},
        hasMessage : {TRUE}, content : {C_text}, hasUsage : {TRUE},
        usage : {U_io}]
  \cup [parse : {TRUE}, type : {"assistant"}, gitBranch : Branches,
        hasMessage : {TRUE}, content : {C_none}, hasUsage : {TRUE},
        usage : {U_io}]
  \cup [parse : {TRUE}, type : {"assistant"}, gitBranch : {Null},
        hasMessage : {TRUE}, content : {C_cmdCD2}, hasUsage : {TRUE},
        usage : {U_all}]
  \cup [parse : {TRUE}, type : {"assistant"}, gitBranch : {Null},
        hasMessage : {TRUE}, content : {C_text}, hasUsage : {FALSE},
        usage : {NoUsage}]

\* Branch names and workflow commands that write tickets in several letter
\* cases and that carry the mistyped ticket, and usage objects with a negative
\* field
B_AB1 == <<"A","B","-","1">>
B_Ab1 == <<"x","/","A","b","-","1","x">>
B_typo == <<"v","i","b","e","-","5","1","6","-","f","i","x">>
T_VIBE516 == <<"V","I","B","E","-","5","1","6">>
T_VIBE216 == <<"V","I","B","E","-","2","1","6">>

KeyBranches == {B_ab1, B_AB1, B_Ab1, B_typo}

C_cmdab1 ==
  [kind |-> "string", text |-> OpenTag \o <<"a","b","-","1">> \o CloseTag,
   items |-> << >>]
C_cmdTypo ==
  [kind |-> "string", text |-> OpenTag \o T_VIBE516 \o CloseTag, items |-> << >>]

KeyContents == {C_cmdab1, C_cmdEF3, C_cmdTypo}

U_neg == [f \in {"input_tokens", "output_tokens"} |->
            IF f = "input_tokens" THEN 0 - 5 ELSE 2]

KeyLines ==
  [parse : {TRUE}, type : {"system"}, gitBranch : KeyBranches,
   hasMessage : {FALSE}, content : {C_none}, hasUsage : {FALSE},
   usage : {NoUsage}]
  \cup [parse : {TRUE}, type : {"user"}, gitBranch : {Null},
        hasMessage : {TRUE}, content : KeyContents, hasUsage : {FALSE},
        usage : {NoUsage}]
  \cup [parse : {TRUE}, type : {"assistant"}, gitBranch : {Null},
        hasMessage : {TRUE}, content : {C_none}, hasUsage : {TRUE},
        usage : {U_io, U_neg}]

\* The two extractors tabulated over the inputs above (evaluated once)
BranchTicket == [b \in Branches \cup KeyBranches |-> extractTicketFromBranch(b)]
WorkflowTicket == [c \in Contents \cup KeyContents |-> extractTicketFromWorkflow(c)]

UNATTRIBUTED == <<"U","N","A","T","T","R","I","B","U","T","E","D">>

\* usage.<field> || 0 ; a usage object is a function from the fields present
OrZero(usage, f) == IF f \in DOMAIN usage /\ usage[f] # 0 THEN usage[f] ELSE 0

totalTokens_NoThinking(usage) ==
  OrZero(usage, "input_tokens") + OrZero(usage, "output_tokens")
  + OrZero(usage, "cache_creation_input_tokens")
  + OrZero(usage, "cache_read_input_tokens")

\* lines 79-83
totalTokens(usage) ==
  OrZero(usage, "input_tokens") + OrZero(usage, "output_tokens")
  + OrZero(usage, "cache_creation_input_tokens")
  + OrZero(usage, "cache_read_input_tokens")
  + OrZero(usage, "thinking_output_tokens")

ZeroTokens ==
  [total |-> 0, input |-> 0, output |-> 0, cacheCreation |-> 0,
   cacheRead |-> 0, thinking |-> 0]

\* lines 96-101: the six += of one assistant event
AddUsage(t, usage) ==
  [total |-> t.total + totalTokens(usage),
   input |-> t.input + OrZero(usage, "input_tokens"),
   output |-> t.output + OrZero(usage, "output_tokens"),
   cacheCreation |-> t.cacheCreation + OrZero(usage, "cache_creation_input_tokens"),
   cacheRead |-> t.cacheRead + OrZero(usage, "cache_read_input_tokens"),
   thinking |-> t.thinking + OrZero(usage, "thinking_output_tokens")]

\* obj[key] || zero-initialised entry
Entry(map, key) == IF key \in DOMAIN map THEN map[key] ELSE ZeroTokens

\* map with map[key] set to v (the key is created when absent)
Put(map, key, v) ==
  [k \in DOMAIN map \cup {key} |-> IF k = key THEN v ELSE map[k]]

EmptyMap == [k \in {} |-> ZeroTokens]

CurrentTicket_BranchFirst(ticketFromWorkflow, ticketFromBranch) ==
  IF ticketFromBranch # Null THEN ticketFromBranch
  ELSE IF ticketFromWorkflow # Null THEN ticketFromWorkflow
  ELSE UNATTRIBUTED

\* line 73
CurrentTicket(ticketFromWorkflow, ticketFromBranch) ==
  IF ticketFromWorkflow # Null THEN ticketFromWorkflow
  ELSE IF ticketFromBranch # Null THEN ticketFromBranch
  ELSE UNATTRIBUTED

BranchUpdate_ClearsWorkflow(st, line) ==
  IF line.gitBranch # Null
  THEN [st EXCEPT !.currentBranch = line.gitBranch,
                  !.currentTicketFromBranch = BranchTicket[line.gitBranch],
                  !.currentTicketFromWorkflow = Null]
  ELSE st

\* lines 60-63: if (data.gitBranch) { currentBranch = ...; ticket = extract(...) }
BranchUpdate(st, line) ==
  IF line.gitBranch # Null
  THEN [st EXCEPT !.currentBranch = line.gitBranch,
                  !.currentTicketFromBranch = BranchTicket[line.gitBranch]]
  ELSE st

\* lines 66-71: a workflow command naming a ticket overrides; nothing clears it
WorkflowUpdate(st, line) ==
  IF line.hasMessage /\ ContentTruthy(line.content)
     /\ WorkflowTicket[line.content] # Null
  THEN [st EXCEPT !.currentTicketFromWorkflow = WorkflowTicket[line.content]]
  ELSE st

\* line 76
BearsTokens(line) == line.type = "assistant" /\ line.hasMessage /\ line.hasUsage

Accumulate_Overwrite(st, line) ==
  IF BearsTokens(line)
  THEN LET key == CurrentTicket(st.currentTicketFromWorkflow, st.currentTicketFromBranch)
       IN [st EXCEPT !.tokensByTicket = Put(@, key, AddUsage(ZeroTokens, line.usage))]
  ELSE st

\* lines 76-102
Accumulate(st, line) ==
  IF BearsTokens(line)
  THEN LET key == CurrentTicket(st.currentTicketFromWorkflow, st.currentTicketFromBranch)
       IN [st EXCEPT !.tokensByTicket =
             Put(@, key, AddUsage(Entry(@, key), line.usage))]
  ELSE st

processLine_AttributeFirst(st, line) ==
  IF ~line.parse THEN st
  ELSE WorkflowUpdate(BranchUpdate(Accumulate(st, line), line), line)

\* lines 56-105: the body of the for-await loop for one line. A line that
\* JSON.parse rejects (or that parses to null) throws before any assignment
\* and the catch block is empty.
processLine(st, line) ==
  IF ~line.parse THEN st
  ELSE Accumulate(WorkflowUpdate(BranchUpdate(st, line), line), line)

\* lines 49-53: the locals of extractTokensFromTranscript
FreshFileState ==
  [currentBranch |-> Null, currentTicketFromBranch |-> Null,
   currentTicketFromWorkflow |-> Null, tokensByTicket |-> EmptyMap]

\* lines 42-109 over the lines of one file
RECURSIVE extractFrom(_, _)
extractFrom(st, lines) ==
  IF lines = << >> THEN st.tokensByTicket
  ELSE extractFrom(processLine(st, Head(lines)), Tail(lines))

extractTokensFromTranscript(lines) == extractFrom(FreshFileState, lines)

AddTokens_KeepLast(a, b) ==
  [total |-> b.total, input |-> b.input, output |-> b.output,
   cacheCreation |-> b.cacheCreation, cacheRead |-> b.cacheRead,
   thinking |-> b.thinking]

\* lines 173-178
AddTokens(a, b) ==
  [total |-> a.total + b.total, input |-> a.input + b.input,
   output |-> a.output + b.output,
   cacheCreation |-> a.cacheCreation + b.cacheCreation,
   cacheRead |-> a.cacheRead + b.cacheRead,
   thinking |-> a.thinking + b.thinking]

\* lines 161-179: merge one file's map into the global totals
MergeInto(all, byTicket) ==
  [k \in DOMAIN all \cup DOMAIN byTicket |->
     IF k \in DOMAIN byTicket THEN AddTokens(Entry(all, k), byTicket[k]) ELSE all[k]]

\* ------------------------------------------------------------------- state
VARIABLES
  pc,                         \* "idle" between files, "lines" inside a file
  fileNo,                     \* files handed to extractTokensFromTranscript
  linesRead,                  \* lines read so far in the run
  currentBranch,
  currentTicketFromBranch,
  currentTicketFromWorkflow,
  tokensByTicket,             \* the current file's map
  allTokensByTicket,          \* extractAllTokens' global map
  attributed,                 \* history: the key the last line incremented, or Null
  usageSum,                   \* history: usage summed over the file's token-bearing events
  wfAfterBranch,              \* history: a workflow ticket was set while a branch ticket was set
  brAfterWf,                  \* history: the last line carried a gitBranch while a workflow ticket was set
  files,                      \* the transcript files found (file id -> lines)
  pending                     \* the files not yet processed

tokVars == <<pc, fileNo, linesRead, currentBranch, currentTicketFromBranch,
             currentTicketFromWorkflow, tokensByTicket, allTokensByTicket,
             attributed, usageSum, wfAfterBranch, brAfterWf, files, pending>>

VARIABLES
  csvFile,                    \* the CSV type being merged (outer loop, line 236)
  sources,                    \* the file of that type in each input folder
  srcIdx,                     \* the next input folder
  mpc,                        \* "merging", then "written" or "skipped"
  masterHeaders,
  hasMaster,                  \* masterHeaders is not null
  allRows,
  seenKeys,
  filesFound,
  inputRows,
  duplicates,
  output,                     \* the lines written to the merged file
  acceptedRows                \* history: the data rows of the accepted sources, in order

csvVars == <<csvFile, sources, srcIdx, mpc, masterHeaders, hasMaster, allRows,
             seenKeys, filesFound, inputRows, duplicates, output, acceptedRows>>

VARIABLES
  tz,                         \* the machine's offset from UTC, in milliseconds
  prs,                        \* what fetchAllPRs returns
  jira,                       \* the story points the tracker holds (ticket -> points)
  weekIdx,                    \* the next week of CONFIG.WEEKS
  weeklyMetrics,              \* the metrics of the weeks processed
  prWeeks,                    \* history: <<PR number, week index>> of the links made
  bedrock,                    \* what parseBedrockCosts returns
  tokenSPData,                \* the last result of calculateTokensPerSPForWeek
  faults,                     \* how many more metric sources can throw in this run
  sourceFailures,                     \* history: the sources that threw, week by week
  weeklyData                  \* the records buildWeeklyData writes

weekVars == <<tz, prs, jira, weekIdx, weeklyMetrics, prWeeks, bedrock, tokenSPData,
              faults, sourceFailures, weeklyData>>

VARIABLES
  curFile,                    \* the transcript file extractTokensFromTranscript is reading (0: none)
  curLine                     \* the lines of it read so far

fileVars == <<curFile, curLine>>

VARIABLES
  loadType,                   \* the analytics file the dashboard loader is reading
  sourceLines,                \* its lines (sessionsLines / costsLines)
  lineIdx,                    \* the loop index i
  loaded,                     \* the records pushed (sessions / costs)
  seenLoaded                  \* the keys seen (seenSessions / seenCosts)

loadVars == <<loadType, sourceLines, lineIdx, loaded, seenLoaded>>

VARIABLES
  calls,                      \* history: the requests and sleeps executed, in order
  jiraToken,                  \* CONFIG.JIRA_TOKEN is set
  sonarToken                  \* CONFIG.SONAR_TOKEN is set

callVars == <<calls, jiraToken, sonarToken>>

VARIABLES
  now,                        \* Date.now()
  cachedPRs,                  \* prAnalysis.js line 10
  cacheTimestamp,             \* prAnalysis.js line 11
  lastCall,                   \* history: what the last call of fetchAllPRs did
  successAt,                  \* history: when the last fetch that succeeded was made
  stored                      \* history: the list that fetch returned

cacheVars == <<now, cachedPRs, cacheTimestamp, lastCall, successAt, stored>>

envVars == <<fileVars, loadVars, callVars, cacheVars>>

vars == <<tokVars, csvVars, weekVars, envVars>>

\* no transcript file open
FilesIdle ==
  /\ curFile = 0
  /\ curLine = 0

\* the dashboard loader not running
LoadIdle ==
  /\ loadType = "none"
  /\ sourceLines = << >>
  /\ lineIdx = 1
  /\ loaded = << >>
  /\ seenLoaded = {}

\* no request made
CallsIdle ==
  /\ calls = << >>
  /\ jiraToken = FALSE
  /\ sonarToken = FALSE

\* fetchAllPRs never called: the module's initial cache (lines 10-11)
CacheIdle ==
  /\ now = 0
  /\ cachedPRs = Null
  /\ cacheTimestamp = Null
  /\ lastCall = << >>
  /\ successAt = Null
  /\ stored = << >>

EnvIdle == FilesIdle /\ LoadIdle /\ CallsIdle /\ CacheIdle

\* the merge script not running
CsvIdle ==
  /\ csvFile = "none"
  /\ sources = << >>
  /\ srcIdx = 1
  /\ mpc = "off"
  /\ masterHeaders = << >>
  /\ hasMaster = FALSE
  /\ allRows = << >>
  /\ seenKeys = {}
  /\ filesFound = 0
  /\ inputRows = 0
  /\ duplicates = 0
  /\ output = << >>
  /\ acceptedRows = << >>

FileState ==
  [currentBranch |-> currentBranch,
   currentTicketFromBranch |-> currentTicketFromBranch,
   currentTicketFromWorkflow |-> currentTicketFromWorkflow,
   tokensByTicket |-> tokensByTicket]

TokInit ==
  /\ pc = "idle"
  /\ fileNo = 0
  /\ linesRead = 0
  /\ currentBranch = Null
  /\ currentTicketFromBranch = Null
  /\ currentTicketFromWorkflow = Null
  /\ tokensByTicket = EmptyMap
  /\ allTokensByTicket = EmptyMap
  /\ attributed = Null
  /\ usageSum = 0
  /\ wfAfterBranch = FALSE
  /\ brAfterWf = FALSE
  /\ files = << >>
  /\ pending = {}

\* extractAllTokens line 158 with lines 49-53: the next file is opened and
\* extractTokensFromTranscript starts from fresh locals
OpenFile ==
  /\ pc = "idle"
  /\ fileNo < MaxFiles
  /\ pc' = "lines"
  /\ fileNo' = fileNo + 1
  /\ currentBranch' = FreshFileState.currentBranch
  /\ currentTicketFromBranch' = FreshFileState.currentTicketFromBranch
  /\ currentTicketFromWorkflow' = FreshFileState.currentTicketFromWorkflow
  /\ tokensByTicket' = FreshFileState.tokensByTicket
  /\ attributed' = Null
  /\ usageSum' = 0
  /\ wfAfterBranch' = FALSE
  /\ brAfterWf' = FALSE
  /\ UNCHANGED <<linesRead, allTokensByTicket, files, pending>>

\* The usage fields present in a usage object, added up
RECURSIVE FieldSum(_, _)
FieldSum(usage, fields) ==
  IF fields = {} THEN 0
  ELSE LET f == CHOOSE x \in fields : TRUE
       IN usage[f] + FieldSum(usage, fields \ {f})

\* The key whose counters differ between two maps (Null when none does)
ChangedKey(before, after) ==
  LET changed == {k \in DOMAIN after : k \notin DOMAIN before \/ after[k] # before[k]}
  IN IF changed = {} THEN Null ELSE CHOOSE k \in changed : TRUE

\* the parse errors the function has counted: the catch block of lines
\* 103-105 is empty and the function has no counter
ParseErrorCount == 0

\* one iteration of the for-await loop (lines 55-106) on the given line
ReadThe(line) ==
  /\ pc = "lines"
  /\ linesRead < MaxLines
  /\ LET st == processLine(FileState, line) IN
       /\ currentBranch' = st.currentBranch
       /\ currentTicketFromBranch' = st.currentTicketFromBranch
       /\ currentTicketFromWorkflow' = st.currentTicketFromWorkflow
       /\ tokensByTicket' = st.tokensByTicket
       /\ attributed' = ChangedKey(tokensByTicket, st.tokensByTicket)
       /\ usageSum' = IF line.parse /\ line.type = "assistant" /\ line.hasMessage
                         /\ line.hasUsage
                      THEN usageSum + FieldSum(line.usage, DOMAIN line.usage)
                      ELSE usageSum
       /\ wfAfterBranch' =
            (wfAfterBranch \/ (currentTicketFromBranch # Null
                               /\ st.currentTicketFromWorkflow # currentTicketFromWorkflow))
       /\ brAfterWf' =
            (currentTicketFromWorkflow # Null /\ line.parse /\ line.gitBranch # Null)
  /\ linesRead' = linesRead + 1
  /\ UNCHANGED <<pc, fileNo, allTokensByTicket, files, pending>>

ReadLine == \E line \in Lines : ReadThe(line)

\* end of file: the map is returned (line 108) and merged (lines 161-179)
CloseFile ==
  /\ pc = "lines"
  /\ pc' = "idle"
  /\ allTokensByTicket' = MergeInto(allTokensByTicket, tokensByTicket)
  /\ UNCHANGED <<fileNo, linesRead, currentBranch, currentTicketFromBranch,
                 currentTicketFromWorkflow, tokensByTicket, attributed,
                 usageSum, wfAfterBranch, brAfterWf, files, pending>>

\* the dashboard generator not running
WeekIdle ==
  /\ tz = 0
  /\ prs = << >>
  /\ jira = << >>
  /\ weekIdx = 1
  /\ weeklyMetrics = << >>
  /\ prWeeks = {}
  /\ bedrock = << >>
  /\ tokenSPData = << >>
  /\ faults = 0
  /\ sourceFailures = << >>
  /\ weeklyData = << >>

Init == TokInit /\ CsvIdle /\ WeekIdle /\ EnvIdle

Next == (OpenFile \/ ReadLine \/ CloseFile) /\ UNCHANGED <<csvVars, weekVars, envVars>>

Spec == Init /\ [][Next]_vars

\* the same loop on transcripts of the lines KeyLines
ReadKeyLine == \E line \in KeyLines : ReadThe(line)

KeyInit == TokInit

InitKeys == KeyInit /\ CsvIdle /\ WeekIdle /\ EnvIdle

KeyNext == (OpenFile \/ ReadKeyLine \/ CloseFile) /\ UNCHANGED <<csvVars, weekVars, envVars>>

SpecKeys == InitKeys /\ [][KeyNext]_vars

\* ------------------------------------- extractAllTokens over a set of files
L_brAB1 ==
  [parse |-> TRUE, type |-> "system", gitBranch |-> B_ab1, hasMessage |-> FALSE,
   content |-> C_none, hasUsage |-> FALSE, usage |-> NoUsage]
L_cmdCD2 ==
  [parse |-> TRUE, type |-> "user", gitBranch |-> Null, hasMessage |-> TRUE,
   content |-> C_cmdCD2, hasUsage |-> FALSE, usage |-> NoUsage]
L_use ==
  [parse |-> TRUE, type |-> "assistant", gitBranch |-> Null, hasMessage |-> TRUE,
   content |-> C_none, hasUsage |-> TRUE, usage |-> U_io]
L_useAll ==
  [parse |-> TRUE, type |-> "assistant", gitBranch |-> Null, hasMessage |-> TRUE,
   content |-> C_cmdCD2, hasUsage |-> TRUE, usage |-> U_all]

\* The transcript files a directory can hold
FileSamples ==
  { << >>,
    <<L_use>>,
    <<L_brAB1, L_use, BadLine>>,
    <<L_brAB1, L_use, L_cmdCD2, L_use>>,
    <<L_useAll, L_use>> }

\* lines 155-182 over the files of ids, taken in ascending order
RECURSIVE extractAllTokensOf(_)
extractAllTokensOf(ids) ==
  IF ids = {} THEN EmptyMap
  ELSE LET last == CHOOSE f \in ids : \A g \in ids : g <= f
       IN MergeInto(extractAllTokensOf(ids \ {last}),
                    extractTokensFromTranscript(files[last]))

AllInit ==
  /\ pc = "all"
  /\ fileNo = 0
  /\ linesRead = 0
  /\ currentBranch = Null
  /\ currentTicketFromBranch = Null
  /\ currentTicketFromWorkflow = Null
  /\ tokensByTicket = EmptyMap
  /\ allTokensByTicket = EmptyMap
  /\ attributed = Null
  /\ usageSum = 0
  /\ wfAfterBranch = FALSE
  /\ brAfterWf = FALSE
  /\ files \in [1..NumFiles -> FileSamples]
  /\ pending = 1..NumFiles

\* lines 157-180: one iteration of the loop over the files, on any file
\* not yet processed (readdirSync fixes no order)
ProcessFile ==
  /\ pc = "all"
  /\ \E f \in pending :
       /\ tokensByTicket' = extractTokensFromTranscript(files[f])
       /\ allTokensByTicket' =
            MergeInto(allTokensByTicket, extractTokensFromTranscript(files[f]))
       /\ pending' = pending \ {f}
  /\ fileNo' = fileNo + 1
  /\ UNCHANGED <<pc, linesRead, currentBranch, currentTicketFromBranch,
                 currentTicketFromWorkflow, attributed, usageSum, wfAfterBranch,
                 brAfterWf, files>>

AllNext == ProcessFile /\ UNCHANGED <<csvVars, weekVars, envVars>>

InitAll == AllInit /\ CsvIdle /\ WeekIdle /\ EnvIdle

SpecAll == InitAll /\ [][AllNext]_vars

\* ------------------------------------------------ merge_analytics: CSV merge
Whitespace == {" ", "\t", "\r", "\n"}

\* String.prototype.trim: from the first to the last non-blank character
trim(s) ==
  LET solid == {i \in 1..Len(s) : s[i] \notin Whitespace} IN
  IF solid = {} THEN << >>
  ELSE SubSeq(s, CHOOSE i \in solid : \A j \in solid : i <= j,
                 CHOOSE i \in solid : \A j \in solid : j <= i)

\* String.prototype.split(sep) for a one-character separator: the pieces
\* between consecutive separators, always at least one
Split(s, sep) ==
  LET at == {i \in 1..Len(s) : s[i] = sep}
      \* the k-th separator; 0 and Len(s) + 1 stand at the two ends
      cut(k) == IF k = 0 THEN 0
                ELSE IF k > Cardinality(at) THEN Len(s) + 1
                ELSE CHOOSE p \in at : Cardinality({q \in at : q < p}) = k - 1
  IN [k \in 1..(Cardinality(at) + 1) |-> SubSeq(s, cut(k - 1) + 1, cut(k) - 1)]

\* Array.prototype.join
RECURSIVE Join(_, _)
Join(parts, sep) ==
  IF parts = << >> THEN << >>
  ELSE IF Len(parts) = 1 THEN parts[1]
  ELSE parts[1] \o sep \o Join(Tail(parts), sep)

TrimAll(parts) == [i \in 1..Len(parts) |-> trim(parts[i])]

\* lines 171-179: the data lines, trimmed, without the empty ones and the
\* copies of the first line
RECURSIVE DataRows(_, _)
DataRows(lines, first) ==
  IF lines = << >> THEN << >>
  ELSE LET line == trim(Head(lines)) IN
       (IF line = << >> \/ line = first THEN << >> ELSE <<line>>)
       \o DataRows(Tail(lines), first)

\* readCSV (lines 155-182) of an existing file with the given content
readCSV(content) ==
  LET lines == Split(trim(content), "\n") IN
  [headers |-> TrimAll(Split(lines[1], ",")),
   rows |-> DataRows(Tail(lines), lines[1])]

K_session_id == <<"s","e","s","s","i","o","n","_","i","d">>
K_turn_number == <<"t","u","r","n","_","n","u","m","b","e","r">>
K_message_id == <<"m","e","s","s","a","g","e","_","i","d">>
K_branch == <<"b","r","a","n","c","h">>
K_started_at == <<"s","t","a","r","t","e","d","_","a","t">>
K_ended_at == <<"e","n","d","e","d","_","a","t">>
K_timestamp == <<"t","i","m","e","s","t","a","m","p">>
K_tool_name == <<"t","o","o","l","_","n","a","m","e">>
K_undefined == <<"u","n","d","e","f","i","n","e","d">>

\* row[name] inside a template literal: the value under the last header of
\* that name ('' when the row is too short), "undefined" without such a header
Column(headers, values, name) ==
  LET at == {i \in 1..Len(headers) : headers[i] = name} IN
  IF at = {} THEN K_undefined
  ELSE LET i == CHOOSE k \in at : \A m \in at : m <= k
       IN IF i <= Len(values) THEN values[i] ELSE << >>

\* getRowKey (lines 185-223) for the types of CONFIG.CSV_FILES
getRowKey(csvFileName, rowData, headers) ==
  LET values == TrimAll(Split(rowData, ","))
      col(name) == Column(headers, values, name)
      bar == <<"|">>
  IN CASE csvFileName = "costs.csv" ->
            Join(<<col(K_session_id), col(K_turn_number), col(K_message_id)>>, bar)
       [] csvFileName = "sessions.csv" ->
            Join(<<col(K_session_id), col(K_branch), col(K_started_at),
                   col(K_ended_at)>>, bar)
       [] csvFileName = "turns.csv" ->
            Join(<<col(K_session_id), col(K_turn_number)>>, bar)
       [] csvFileName \in {"compactions.csv", "prompts.csv"} ->
            Join(<<col(K_session_id), col(K_turn_number), col(K_timestamp)>>, bar)
       [] csvFileName = "tool_usage.csv" ->
            Join(<<col(K_session_id), col(K_turn_number), col(K_tool_name),
                   col(K_started_at)>>, bar)
       [] OTHER -> rowData

\* line 32
CSV_FILES == {"costs.csv", "sessions.csv", "turns.csv", "compactions.csv",
              "prompts.csv", "tool_usage.csv"}

\* lines 239-244
FreshMerge ==
  [hasMaster |-> FALSE, masterHeaders |-> << >>, allRows |-> << >>,
   seenKeys |-> {}, filesFound |-> 0, inputRows |-> 0, duplicates |-> 0]

AddRow_NoRemember(csvType, ms, row) ==
  LET key == getRowKey(csvType, row, ms.masterHeaders) IN
  IF key \in ms.seenKeys
  THEN [ms EXCEPT !.duplicates = @ + 1]
  ELSE [ms EXCEPT !.allRows = Append(@, row)]

\* lines 281-291 for one row
AddRow(csvType, ms, row) ==
  LET key == getRowKey(csvType, row, ms.masterHeaders) IN
  IF key \in ms.seenKeys
  THEN [ms EXCEPT !.duplicates = @ + 1]
  ELSE [ms EXCEPT !.seenKeys = @ \cup {key}, !.allRows = Append(@, row)]

\* the loop left at the first duplicate (break for continue)
RECURSIVE AddUniqueRows_Break(_, _, _)
AddUniqueRows_Break(csvType, ms, rows) ==
  IF rows = << >> THEN ms
  ELSE IF getRowKey(csvType, Head(rows), ms.masterHeaders) \in ms.seenKeys
  THEN [ms EXCEPT !.duplicates = @ + 1]
  ELSE AddUniqueRows_Break(csvType, AddRow(csvType, ms, Head(rows)), Tail(rows))

\* lines 281-291
RECURSIVE AddUniqueRows(_, _, _)
AddUniqueRows(csvType, ms, rows) ==
  IF rows = << >> THEN ms
  ELSE AddUniqueRows(csvType, AddRow(csvType, ms, Head(rows)), Tail(rows))

\* lines 266-278: whether the source's header is accepted
HeadersAccepted_Any(ms, headers) == TRUE

HeadersAccepted(ms, headers) == ~ms.hasMaster \/ headers = ms.masterHeaders

\* lines 247-294: the loop body for one input folder. A source is
\* [exists, content]; readCSV never returns null headers for an existing
\* file, since ''.split('\n') is [''].
mergeSource(csvType, ms, src) ==
  IF ~src.exists THEN ms
  ELSE LET r == readCSV(src.content)
           counted == [ms EXCEPT !.filesFound = @ + 1,
                                 !.inputRows = @ + Len(r.rows)]
       IN IF ~HeadersAccepted(ms, r.headers) THEN counted
          ELSE AddUniqueRows(csvType,
                 [counted EXCEPT !.hasMaster = TRUE, !.masterHeaders = r.headers],
                 r.rows)

\* lines 236-294 over the input folders in order
RECURSIVE mergeFrom(_, _, _)
mergeFrom(csvType, ms, srcs) ==
  IF srcs = << >> THEN ms
  ELSE mergeFrom(csvType, mergeSource(csvType, ms, Head(srcs)), Tail(srcs))

mergeSources(csvType, srcs) == mergeFrom(csvType, FreshMerge, srcs)

\* ----------------------------------------------------------- CSV inputs
\* A source file is written here as its header line and its data lines.
H_sessions == <<"s","e","s","s","i","o","n","_","i","d",",","b","r","a","n","c","h",",","s","t","a","r","t","e","d","_","a","t",",","e","n","d","e","d","_","a","t",",","t","u","r","n","_","c","o","u","n","t">>
H_costs == <<"s","e","s","s","i","o","n","_","i","d",",","t","u","r","n","_","n","u","m","b","e","r",",","m","e","s","s","a","g","e","_","i","d",",","t","o","t","a","l","_","t","o","k","e","n","s">>

R_s1 == <<"S","1",",","f","o","o",",","1","0","0",",","2","0","0",",","5">>
R_s1later == <<"S","1",",","f","o","o",",","1","0","0",",","2","0","0",",","7">>
R_s2 == <<"S","2",",","f","o","o",",","1","0","0",",","2","0","0",",","5">>
R_s3 == <<"S","3",",","b","a","r",",","3","0","0",",","4","0","0",",","1">>
R_barLeft == <<"a","|","b",",","c",",","1",",","2",",","0">>
R_barRight == <<"a",",","b","|","c",",","1",",","2",",","0">>
R_c1 == <<"S","1",",","1",",","m","1",",","4","0">>
R_c2 == <<"S","1",",","2",",","m","2",",","5","0">>

\* The text of a file with the given header line and data lines
Content(header, rows) == Join(<<header>> \o rows, <<"\n">>) \o <<"\n">>

\* What the merge loop reads of an input folder's file
\* The same text with every line ended by eol
ContentEol(header, rows, eol) == Join(<<header>> \o rows, eol) \o eol

FileOf(src) ==
  [exists |-> src.exists,
   content |-> IF ~src.exists THEN << >>
               ELSE IF "eol" \in DOMAIN src THEN ContentEol(src.header, src.rows, src.eol)
               ELSE Content(src.header, src.rows)]

MissingFile == [exists |-> FALSE, header |-> << >>, rows |-> << >>]

\* The files one input folder can hold for a CSV type
SourceShapes ==
  { <<H_sessions, <<R_s1, R_s2>> >>,
    <<H_sessions, <<R_s3, R_s1>> >>,
    <<H_sessions, <<R_s1later>> >>,
    <<H_sessions, <<R_s1, H_sessions, R_s1>> >>,
    <<H_sessions, <<R_barLeft, R_barRight>> >>,
    <<H_costs, <<R_c1, R_c2>> >> }

Sources ==
  {MissingFile}
  \cup {[exists |-> TRUE, header |-> sh[1], rows |-> sh[2]] : sh \in SourceShapes}

\* ------------------------------------------------ merge_analytics: state
MergeState ==
  [hasMaster |-> hasMaster, masterHeaders |-> masterHeaders, allRows |-> allRows,
   seenKeys |-> seenKeys, filesFound |-> filesFound, inputRows |-> inputRows,
   duplicates |-> duplicates]

\* the transcript pipeline not running
TokIdle ==
  /\ pc = "off"
  /\ fileNo = 0
  /\ linesRead = 0
  /\ currentBranch = Null
  /\ currentTicketFromBranch = Null
  /\ currentTicketFromWorkflow = Null
  /\ tokensByTicket = EmptyMap
  /\ allTokensByTicket = EmptyMap
  /\ attributed = Null
  /\ usageSum = 0
  /\ wfAfterBranch = FALSE
  /\ brAfterWf = FALSE
  /\ files = << >>
  /\ pending = {}

\* lines 236-244: one CSV type, its file in each input folder, fresh state
\* the CSV types whose merge is explored
MergedTypes == {t \in CSV_FILES : t \in {"sessions.csv", "costs.csv", "turns.csv"}}

MergeInit ==
  /\ csvFile \in MergedTypes
  /\ sources \in [1..NumSources -> Sources]
  /\ srcIdx = 1
  /\ mpc = "merging"
  /\ masterHeaders = FreshMerge.masterHeaders
  /\ hasMaster = FreshMerge.hasMaster
  /\ allRows = FreshMerge.allRows
  /\ seenKeys = FreshMerge.seenKeys
  /\ filesFound = FreshMerge.filesFound
  /\ inputRows = FreshMerge.inputRows
  /\ duplicates = FreshMerge.duplicates
  /\ output = << >>
  /\ acceptedRows = << >>

\* lines 247-294: the next input folder
MergeNextSource ==
  /\ mpc = "merging"
  /\ srcIdx <= Len(sources)
  /\ LET src == FileOf(sources[srcIdx])
         ms == mergeSource(csvFile, MergeState, src)
     IN /\ masterHeaders' = ms.masterHeaders
        /\ hasMaster' = ms.hasMaster
        /\ allRows' = ms.allRows
        /\ seenKeys' = ms.seenKeys
        /\ filesFound' = ms.filesFound
        /\ inputRows' = ms.inputRows
        /\ duplicates' = ms.duplicates
        /\ acceptedRows' =
             IF src.exists /\ HeadersAccepted(MergeState, readCSV(src.content).headers)
             THEN acceptedRows \o readCSV(src.content).rows
             ELSE acceptedRows
  /\ srcIdx' = srcIdx + 1
  /\ UNCHANGED <<csvFile, sources, mpc, output>>

\* lines 296-300: the type was found in no folder
SkipType ==
  /\ mpc = "merging"
  /\ srcIdx > Len(sources)
  /\ filesFound = 0
  /\ mpc' = "skipped"
  /\ UNCHANGED <<csvFile, sources, srcIdx, masterHeaders, hasMaster, allRows,
                 seenKeys, filesFound, inputRows, duplicates, output, acceptedRows>>

\* lines 302-309: the merged file is written
WriteMerged ==
  /\ mpc = "merging"
  /\ srcIdx > Len(sources)
  /\ filesFound # 0
  /\ output' = <<Join(masterHeaders, <<",">>)>> \o allRows
  /\ mpc' = "written"
  /\ UNCHANGED <<csvFile, sources, srcIdx, masterHeaders, hasMaster, allRows,
                 seenKeys, filesFound, inputRows, duplicates, acceptedRows>>

MergeNext ==
  (MergeNextSource \/ SkipType \/ WriteMerged) /\ UNCHANGED <<tokVars, weekVars, envVars>>

InitMerge == MergeInit /\ TokIdle /\ WeekIdle /\ EnvIdle

SpecMerge == InitMerge /\ [][MergeNext]_vars

\* a run over one input folder more, each holding one of a few files
WideSources ==
  {MissingFile}
  \cup {[exists |-> TRUE, header |-> sh[1], rows |-> sh[2]] :
          sh \in { <<H_sessions, <<R_s1, R_s2>> >>,
                   <<H_sessions, <<R_s3, R_s1>> >>,
                   <<H_costs, <<R_c1, R_c2>> >> }}

WideInit ==
  /\ csvFile \in MergedTypes
  /\ sources \in [1..(NumSources + 1) -> WideSources]
  /\ srcIdx = 1
  /\ mpc = "merging"
  /\ masterHeaders = FreshMerge.masterHeaders
  /\ hasMaster = FreshMerge.hasMaster
  /\ allRows = FreshMerge.allRows
  /\ seenKeys = FreshMerge.seenKeys
  /\ filesFound = FreshMerge.filesFound
  /\ inputRows = FreshMerge.inputRows
  /\ duplicates = FreshMerge.duplicates
  /\ output = << >>
  /\ acceptedRows = << >>

InitWide == WideInit /\ TokIdle /\ WeekIdle /\ EnvIdle

SpecWide == InitWide /\ [][MergeNext]_vars

\* ------------------------------------------------------------------ claims
FiveSum(t) == t.input + t.output + t.cacheCreation + t.cacheRead + t.thinking

RECURSIVE SumTotals(_, _)
SumTotals(map, keys) ==
  IF keys = {} THEN 0
  ELSE LET k == CHOOSE x \in keys : TRUE
       IN map[k].total + SumTotals(map, keys \ {k})

\* C1: a token-bearing event is attributed to the workflow ticket when one
\* is set, else to the branch ticket when one is set, else to UNATTRIBUTED.
C1_AttributionPrecedence ==
  attributed # Null =>
    /\ currentTicketFromWorkflow # Null => attributed = currentTicketFromWorkflow
    /\ (currentTicketFromWorkflow = Null /\ currentTicketFromBranch # Null)
         => attributed = currentTicketFromBranch
    /\ (currentTicketFromWorkflow = Null /\ currentTicketFromBranch = Null)
         => attributed = UNATTRIBUTED

\* the workflow ticket wins over a different branch ticket
C1_Witness ==
  /\ attributed = T_CD2
  /\ currentTicketFromWorkflow = T_CD2
  /\ currentTicketFromBranch = T_AB1

\* The contents that are a workflow command naming a ticket
TicketCommands == {C_cmdCD2, C_cmdEF3}

\* C2: once a workflow ticket is set, a line that is not a workflow command
\* naming a ticket leaves it unchanged, whatever gitBranch the line carries,
\* and the usage of such a line is attributed to that workflow ticket.
C2_WorkflowSticky ==
  [][\A line \in Lines :
       (/\ ReadThe(line)
        /\ currentTicketFromWorkflow # Null
        /\ ~(line.parse /\ line.hasMessage /\ line.content \in TicketCommands))
       => /\ currentTicketFromWorkflow' = currentTicketFromWorkflow
          /\ (line.parse /\ line.type = "assistant" /\ line.hasUsage)
               => attributed' = currentTicketFromWorkflow]_vars

\* branch AB-1, then workflow CD-2, then a usage event carrying a gitBranch
\* for AB-1: attributed to CD-2
C2_Witness ==
  /\ wfAfterBranch
  /\ brAfterWf
  /\ currentTicketFromBranch = T_AB1
  /\ currentTicketFromWorkflow = T_CD2
  /\ attributed = T_CD2

\* C3: the totals of the file's map add up to the usage fields of the
\* file's token-bearing events.
C3_TokensConserved ==
  SumTotals(tokensByTicket, DOMAIN tokensByTicket) = usageSum

\* two keys hold tokens of three events
C3_Witness ==
  /\ Cardinality(DOMAIN tokensByTicket) >= 2
  /\ usageSum >= 9
  /\ \E k \in DOMAIN tokensByTicket : tokensByTicket[k].total >= 6

\* C4: in the file's map and in the global map, total is the sum of the
\* five category counters.
C4_TotalIsSum ==
  /\ \A k \in DOMAIN tokensByTicket : tokensByTicket[k].total = FiveSum(tokensByTicket[k])
  /\ \A k \in DOMAIN allTokensByTicket :
       allTokensByTicket[k].total = FiveSum(allTokensByTicket[k])

\* a ticket whose global counters come from two merged files, thinking included
C4_Witness ==
  /\ fileNo = 2
  /\ pc = "idle"
  /\ \E k \in DOMAIN tokensByTicket \cap DOMAIN allTokensByTicket :
       /\ tokensByTicket[k].total > 0
       /\ allTokensByTicket[k].total > tokensByTicket[k].total
       /\ allTokensByTicket[k].thinking > 0

\* C5: whatever the order in which the files are processed, the global
\* totals are those of the ascending order, and merging the aggregates of
\* two complementary groups of files gives these totals too.
C5_OrderIndependent ==
  pending = {} /\ pc = "all" =>
    /\ allTokensByTicket = extractAllTokensOf(DOMAIN files)
    /\ \A G \in SUBSET DOMAIN files :
         MergeInto(extractAllTokensOf(G), extractAllTokensOf(DOMAIN files \ G))
           = allTokensByTicket

\* all files processed, two different files having fed the same ticket
C5_Witness ==
  /\ pc = "all"
  /\ pending = {}
  /\ \E f, g \in DOMAIN files :
       /\ files[f] # files[g]
       /\ \E k \in DOMAIN extractTokensFromTranscript(files[f])
                   \cap DOMAIN extractTokensFromTranscript(files[g]) :
            allTokensByTicket[k].total > extractTokensFromTranscript(files[f])[k].total

\* ---------------------------------------------------------- CSV merge claims
Perms(n) == {p \in [1..n -> 1..n] : \A i, j \in 1..n : i # j => p[i] # p[j]}

\* a source with its data lines in every order
RowPerms(src) ==
  {[src EXCEPT !.rows = [k \in 1..Len(src.rows) |-> src.rows[p[k]]]] :
     p \in Perms(Len(src.rows))}

\* every reordering of the sources and of the data lines inside each
Reordered(srcs) ==
  LET n == Len(srcs) IN
  {q \in [1..n -> UNION {RowPerms(srcs[i]) : i \in 1..n}] :
     \E sp \in Perms(n) : \A i \in 1..n : q[i] \in RowPerms(srcs[sp[i]])}

\* the data lines occurring in the sources
InputRows(srcs) ==
  UNION {{srcs[i].rows[k] : k \in 1..Len(srcs[i].rows)} : i \in 1..Len(srcs)}

\* the sources with one more copy of a line already present, put first or
\* last in one of the existing files
WithCopy(srcs) ==
  {[srcs EXCEPT ![i].rows = IF front THEN <<r>> \o @ ELSE Append(@, r)] :
     i \in {k \in 1..Len(srcs) : srcs[k].exists}, r \in InputRows(srcs),
     front \in BOOLEAN}

MergedRows(srcs) ==
  mergeSources(csvFile, [i \in 1..Len(srcs) |-> FileOf(srcs[i])]).allRows

RowSet(rows) == {rows[i] : i \in 1..Len(rows)}

KeySet(rows) == {getRowKey(csvFile, rows[i], masterHeaders) : i \in 1..Len(rows)}

MergeDone == mpc \in {"written", "skipped"}

\* the files present all carry the same columns
SameHeaders ==
  \A i, j \in 1..Len(sources) :
    (sources[i].exists /\ sources[j].exists)
      => TrimAll(Split(sources[i].header, ",")) = TrimAll(Split(sources[j].header, ","))

\* data lines with equal keys are equal
EqualKeysEqualRows ==
  \A r1, r2 \in InputRows(sources) :
    getRowKey(csvFile, trim(r1), masterHeaders) = getRowKey(csvFile, trim(r2), masterHeaders)
      => trim(r1) = trim(r2)

\* C6 as stated: every reordering of the input, and every added copy of a
\* line already present, gives the same set of output rows.
C6_RowsOrderIndependent ==
  MergeDone =>
    \A q \in Reordered(sources) \cup WithCopy(sources) :
      RowSet(MergedRows(q)) = RowSet(allRows)

\* C6 amended: for sources with the same header, every reordering and every
\* added copy gives the same set of output keys, and the same set of output
\* rows when lines with equal keys are equal lines.
C6_KeysOrderIndependent ==
  (MergeDone /\ SameHeaders) =>
    LET sameRows == EqualKeysEqualRows IN
    \A q \in Reordered(sources) \cup WithCopy(sources) :
      LET rows == MergedRows(q) IN
      /\ KeySet(rows) = KeySet(allRows)
      /\ sameRows => RowSet(rows) = RowSet(allRows)

\* two files with the same header sharing a key: the shared line identical
\* in one pair of files, different in another
C6_Witness ==
  /\ MergeDone
  /\ SameHeaders
  /\ csvFile = "sessions.csv"
  /\ duplicates > 0
  /\ Len(allRows) >= 2
  /\ \A i \in 1..Len(sources) : sources[i].exists

\* the first line of each key among rows, in order
RECURSIVE FirstSeen(_, _)
FirstSeen(rows, keys) ==
  IF rows = << >> THEN << >>
  ELSE LET k == getRowKey(csvFile, Head(rows), masterHeaders) IN
       IF k \in keys THEN FirstSeen(Tail(rows), keys)
       ELSE <<Head(rows)>> \o FirstSeen(Tail(rows), keys \cup {k})

\* C7: the merged rows hold one row per key of the accepted sources, the
\* first seen of each key, in the order first seen; every other row is
\* counted as a duplicate.
C7_OneRowPerKey ==
  /\ \A i, j \in 1..Len(allRows) :
       i # j => getRowKey(csvFile, allRows[i], masterHeaders)
                  # getRowKey(csvFile, allRows[j], masterHeaders)
  /\ KeySet(allRows) = KeySet(acceptedRows)
  /\ allRows = FirstSeen(acceptedRows, {})
  /\ duplicates = Len(acceptedRows) - Len(allRows)
  /\ mpc = "written" => Tail(output) = allRows

\* two sources sharing one line and holding one line of their own each:
\* three rows written, one duplicate
C7_Witness ==
  /\ mpc = "written"
  /\ csvFile = "sessions.csv"
  /\ Len(acceptedRows) = 4
  /\ Len(allRows) = 3
  /\ duplicates = 1
  /\ Len(output) = 4
  /\ R_s1 \in RowSet(allRows)

\* the key components of a line as a tuple (sessions and costs files)
KeyTuple(row) ==
  LET values == TrimAll(Split(row, ","))
      col(name) == Column(masterHeaders, values, name)
  IN IF csvFile = "sessions.csv"
     THEN <<col(K_session_id), col(K_branch), col(K_started_at), col(K_ended_at)>>
     ELSE <<col(K_session_id), col(K_turn_number), col(K_message_id)>>

\* C8: two rows are duplicates exactly when they agree on every component
\* of the key: a row of the accepted sources has a kept row with the same
\* components, and no two kept rows have the same components.
C8_DuplicateIffSameComponents ==
  csvFile \in {"sessions.csv", "costs.csv"} =>
    /\ \A i \in 1..Len(acceptedRows) :
         \E j \in 1..Len(allRows) : KeyTuple(allRows[j]) = KeyTuple(acceptedRows[i])
    /\ \A i, j \in 1..Len(allRows) :
         i # j => KeyTuple(allRows[i]) # KeyTuple(allRows[j])

\* ------------------------------------------------ dateUtils: week membership
\* An instant is a day (counted from 2025-10-01, UTC) and a millisecond of
\* that day.
MsPerHour == 1000 * 60 * 60
MsPerDay == 1000 * 60 * 60 * 24

\* days of 2025 before the month, counted from October
DaysBeforeMonth(month) ==
  CASE month = 10 -> 0
    [] month = 11 -> 31
    [] month = 12 -> 31 + 30

Date(month, day) == [year |-> 2025, month |-> month, day |-> day]

DayNumber(date) == DaysBeforeMonth(date.month) + date.day - 1

\* new Date('YYYY-MM-DD'): midnight UTC of the date
ParseDate(date) == [day |-> DayNumber(date), ms |-> 0]

\* the instant off milliseconds after t (|off| below two days)
Shift(t, off) ==
  LET total == t.ms + off IN
  [day |-> t.day + (total \div MsPerDay), ms |-> total % MsPerDay]

\* Date.prototype.setHours(h, m, s, ms) on a machine offset milliseconds
\* ahead of UTC: the time of day is replaced on the local calendar day
setHours(t, h, m, s, ms, offset) ==
  LET local == Shift(t, offset) IN
  Shift([day |-> local.day, ms |-> ((h * 60 + m) * 60 + s) * 1000 + ms], -offset)

\* date <= date
NotAfter(a, b) == a.day < b.day \/ (a.day = b.day /\ a.ms <= b.ms)

\* isInWeek (dateUtils lines 3-9)
isInWeek(date, week, offset) ==
  LET startDate == ParseDate(week.start)
      endDate == setHours(ParseDate(week.end), 23, 59, 59, 999, offset)
  IN NotAfter(startDate, date) /\ NotAfter(date, endDate)

\* CONFIG.WEEKS
WEEKS ==
  << [name |-> "Week 1", start |-> Date(10, 7), end |-> Date(10, 10)],
     [name |-> "Week 2", start |-> Date(10, 13), end |-> Date(10, 17)],
     [name |-> "Week 3", start |-> Date(10, 20), end |-> Date(10, 24)],
     [name |-> "Week 4", start |-> Date(10, 27), end |-> Date(10, 31)],
     [name |-> "Week 5", start |-> Date(11, 3), end |-> Date(11, 7)],
     [name |-> "Week 6", start |-> Date(11, 10), end |-> Date(11, 14)],
     [name |-> "Week 7", start |-> Date(11, 17), end |-> Date(11, 21)],
     [name |-> "Week 8", start |-> Date(11, 24), end |-> Date(11, 28)],
     [name |-> "Week 9", start |-> Date(12, 1), end |-> Date(12, 5)] >>

\* ------------------------------------------------- jiraApi, tokensPerSP
\* extractJiraTicket (jiraApi lines 57-61): the pattern without the i flag
extractJiraTicket(text) ==
  IF text = Null THEN Null ELSE TicketMatch(text, FALSE)

\* a nullable number: Null, or the number in a one-element sequence
Some(n) == <<n>>

Round_Floor(a, b) == a \div b

\* Math.round of a / b for a >= 0, b > 0
Round(a, b) == (2 * a + b) \div (2 * b)

\* PR titles
P_AB1a == <<"A","B","-","1"," ","a">>
P_CD2 == <<"x"," ","C","D","-","2">>
P_EF3 == <<"E","F","-","3"," ","y">>
P_dep == <<"A","B","-","1"," ","U","p","d","a","t","e"," ","P","r","i","s","m","a">>
P_lower == <<"a","b","-","1"," ","c">>
Titles == {P_AB1a, P_CD2, P_EF3, P_dep, P_lower}

TitleTicket == [t \in Titles |-> extractJiraTicket(t)]

LinkPR_AnyState(ticketToPR, pr, week, offset) ==
  IF TitleTicket[pr.title] = Null THEN ticketToPR
  ELSE IF isInWeek(pr.createdAt, week, offset)
  THEN [t \in DOMAIN ticketToPR \cup {TitleTicket[pr.title]} |->
          IF t = TitleTicket[pr.title]
          THEN [prNumber |-> pr.number, createdAt |-> pr.createdAt,
                week |-> week.name, storyPoints |-> Null, tokens |-> Null]
          ELSE ticketToPR[t]]
  ELSE ticketToPR

\* lines 14-31 for one pull request
LinkPR(ticketToPR, pr, week, offset) ==
  IF pr.state # "MERGED" THEN ticketToPR
  ELSE IF TitleTicket[pr.title] = Null THEN ticketToPR
  ELSE IF isInWeek(pr.createdAt, week, offset)
  THEN [t \in DOMAIN ticketToPR \cup {TitleTicket[pr.title]} |->
          IF t = TitleTicket[pr.title]
          THEN [prNumber |-> pr.number, createdAt |-> pr.createdAt,
                week |-> week.name, storyPoints |-> Null, tokens |-> Null]
          ELSE ticketToPR[t]]
  ELSE ticketToPR

\* buildTicketToPRMapping (tokensPerSP lines 11-35)
RECURSIVE buildFrom(_, _, _, _)
buildFrom(ticketToPR, list, week, offset) ==
  IF list = << >> THEN ticketToPR
  ELSE buildFrom(LinkPR(ticketToPR, Head(list), week, offset), Tail(list), week, offset)

NoLinks == [t \in {} |-> [prNumber |-> 0]]

buildTicketToPRMapping(list, week, offset) == buildFrom(NoLinks, list, week, offset)

\* getStoryPointsForTickets (jiraApi lines 36-52): the tickets the tracker
\* answers for; 0 stands for a missing story-point field
getStoryPointsForTickets(ticketIds, tracker) ==
  [t \in ticketIds \cap DOMAIN tracker |-> [storyPoints |-> tracker[t]]]

\* jira && jira.storyPoints
HasPoints(jiraData, ticket) ==
  ticket \in DOMAIN jiraData /\ jiraData[ticket].storyPoints # 0

RECURSIVE SumOver(_, _)
SumOver(S, f) ==
  IF S = {} THEN 0
  ELSE LET x == CHOOSE y \in S : TRUE IN f[x] + SumOver(S \ {x}, f)

CountsTokens_Always(allTokens, ticket) == TRUE

\* if (tokens), line 80
CountsTokens(allTokens, ticket) == ticket \in DOMAIN allTokens

\* calculateTokensPerSPForWeek (tokensPerSP lines 41-97) on the given
\* token totals, pull requests and tracker
calculateTokensPerSPForWeek(week, allTokens, list, tracker, offset) ==
  LET ticketToPR == buildTicketToPRMapping(list, week, offset)
      ticketIds == DOMAIN ticketToPR
      jiraData == getStoryPointsForTickets(ticketIds, tracker)
      pointed == {t \in ticketIds : HasPoints(jiraData, t)}
      counted == {t \in pointed : CountsTokens(allTokens, t)}
      weekTotalTokens == SumOver(counted, [t \in counted |-> Entry(allTokens, t).total])
      weekTotalSP == SumOver(counted, [t \in counted |-> jiraData[t].storyPoints])
      weekTotalSPAllTickets ==
        SumOver(pointed, [t \in pointed |-> jiraData[t].storyPoints])
  IN IF ticketIds = {}
     THEN [tokensPerSP |-> Null, storyPoints |-> Null]
     ELSE [tokensPerSP |->
             IF weekTotalSP > 0 THEN Some(Round(weekTotalTokens, weekTotalSP)) ELSE Null,
           storyPoints |->
             IF weekTotalSPAllTickets > 0 THEN Some(weekTotalSPAllTickets) ELSE Null,
           totalTokens |-> IF weekTotalTokens > 0 THEN Some(weekTotalTokens) ELSE Null,
           ticketDetails |->
             [t \in ticketIds |->
                [ticketToPR[t] EXCEPT
                   !.storyPoints = IF t \in pointed THEN Some(jiraData[t].storyPoints)
                                   ELSE Null,
                   !.tokens = IF t \in counted THEN Some(Entry(allTokens, t).total)
                              ELSE Null]]]

\* the tokens the function has tallied as left out of the week: its result
\* (lines 92-97) holds the four fields above and no tally, and the tokens of a
\* ticket without a link are never read (lines 76-89 loop over ticketToPR)
ExcludedTokensTally == 0

\* ------------------------------------------------ prUtils: feature PR filter
\* String.prototype.toLowerCase, one character
LowerChar(c) ==
  IF IsUpper(c) THEN LowerLetters[CHOOSE i \in 1..26 : UpperLetters[i] = c] ELSE c

toLowerCase(s) == [i \in 1..Len(s) |-> LowerChar(s[i])]

\* String.prototype.includes
Includes(s, sub) == \E i \in 1..(Len(s) + 1) : HasAt(s, i, sub)

\* isDependencyUpdate (prUtils lines 26-35)
isDependencyUpdate(title) ==
  IF title = Null THEN FALSE
  ELSE LET lowerTitle == toLowerCase(title) IN
       \/ Includes(lowerTitle, <<"u","p","d","a","t","e"," ","d","e","p","e","n","d","e","n","c","y">>)
       \/ Includes(lowerTitle, <<"u","p","d","a","t","e"," ","p","r","i","s","m","a">>)
       \/ Includes(lowerTitle, <<"u","p","d","a","t","e"," ","v","i","t","e","s","t">>)
       \/ Includes(lowerTitle, <<"u","p","d","a","t","e"," ","n","o","d","e",".","j","s">>)
       \/ Includes(lowerTitle, <<"u","p","d","a","t","e"," ","g","i","t","h","u","b">>)
       \/ Includes(lowerTitle, <<"u","p","d","a","t","e"," ","a","c","t","i","o","n","s","/">>)

\* CONFIG.EXCLUDED_TICKETS
EXCLUDED_TICKETS ==
  <<
    <<"V","I","B","E","-","2","0","7">>, <<"V","I","B","E","-","1","6","3">>, <<"V","I","B","E","-","1","6","4">>, <<"V","I","B","E","-","1","6","5">>,
    <<"V","I","B","E","-","1","7","0">>, <<"V","I","B","E","-","1","7","1">>, <<"V","I","B","E","-","1","7","2">>, <<"V","I","B","E","-","1","7","3">>,
    <<"V","I","B","E","-","1","7","6">>, <<"V","I","B","E","-","1","8","2">>, <<"V","I","B","E","-","1","9","3">>, <<"V","I","B","E","-","1","9","4">>,
    <<"V","I","B","E","-","1","9","7">>, <<"V","I","B","E","-","1","9","8">>, <<"V","I","B","E","-","2","1","1">>, <<"V","I","B","E","-","2","1","2">>,
    <<"V","I","B","E","-","2","1","3">>, <<"V","I","B","E","-","2","1","7">>, <<"V","I","B","E","-","2","1","8">>
  >>

\* isExcludedTicket (prUtils lines 40-43)
isExcludedTicket(title) ==
  IF title = Null THEN FALSE
  ELSE \E i \in 1..Len(EXCLUDED_TICKETS) : Includes(title, EXCLUDED_TICKETS[i])

EXCLUDED_DEVELOPERS ==
  << <<"l","i","n","o","s","n","o","r","t">>, <<"l","i","n","u","s","-","n","o","r","t","o","n">>, <<"l","i","n","u","s","n","o","r","t","o","n">>, <<"a","s","h","w","i","n","i","-","m","v">>, <<"m","e","l","v","c","h","a","n","c","e">> >>

\* isExcludedDeveloper (prUtils lines 48-53)
isExcludedDeveloper(authorLogin) ==
  IF authorLogin = Null THEN FALSE
  ELSE \E i \in 1..Len(EXCLUDED_DEVELOPERS) :
         Includes(toLowerCase(authorLogin), EXCLUDED_DEVELOPERS[i])

\* author logins
A_dev == <<"k","i","a","n">>
A_infra == <<"L","i","n","u","s","N","o","r","t","o","n">>
Logins == {A_dev, A_infra}

\* the title and login tests, tabulated over the inputs
TitleSkipped == [t \in Titles |-> isDependencyUpdate(t) \/ isExcludedTicket(t)]
LoginExcluded == [a \in Logins |-> isExcludedDeveloper(a)]

\* the predicate of filterPRsForWeek (prUtils lines 111-140)
IsFeaturePR(pr, week, offset) ==
  /\ pr.createdAt # Null
  /\ isInWeek(pr.createdAt, week, offset)
  /\ ~pr.author.is_bot
  /\ ~TitleSkipped[pr.title]
  /\ ~LoginExcluded[pr.author.login]
  /\ pr.state = "MERGED"

\* Array.prototype.filter: the elements at the kept positions, in order
Filter(list, kept) ==
  LET nth(k) == CHOOSE i \in kept : Cardinality({j \in kept : j <= i}) = k
  IN [k \in 1..Cardinality(kept) |-> list[nth(k)]]

\* filterPRsForWeek (prUtils lines 106-141)
filterPRsForWeek(allPRs, week, offset) ==
  Filter(allPRs, {i \in DOMAIN allPRs : IsFeaturePR(allPRs[i], week, offset)})

\* ----------------------------------------------------------- JS numbers
\* a field that was never assigned
Undefined == <<0, 0>>

\* a value in a condition: neither undefined, null nor 0
Truthy(v) == Len(v) = 1 /\ v[1] # 0

Positive_Defined(v) == Len(v) = 1

\* v > 0 (undefined and null compare false)
Positive(v) == Len(v) = 1 /\ v[1] > 0

\* a / b rounded to the nearest integer, halves up, for a >= 0 and b > 0
RoundDiv(a, b) == (a \div b) + (IF 2 * (a % b) >= b THEN 1 ELSE 0)

\* what a division leaves when the divisor is 0
NaN == <<0, 0, 0>>
Infinity == <<0, 0, 0, 0>>

\* parseFloat((a / b).toFixed(2)) in units of 1/100, for a >= 0 and b >= 0
Fixed2(a, b) ==
  IF b = 0 THEN (IF a = 0 THEN NaN ELSE Infinity) ELSE Some(RoundDiv(a * 100, b))

\* parseFloat((a / b).toFixed(8)) in units of 1/100000000, four digits at a
\* time
Fixed8(a, b) ==
  IF b = 0 THEN (IF a = 0 THEN NaN ELSE Infinity)
  ELSE Some(((a * 10000) \div b) * 10000 + RoundDiv(((a * 10000) % b) * 10000, b))

\* Math.round(a / b) for a >= 0 and b >= 0
MathRound(a, b) ==
  IF b = 0 THEN (IF a = 0 THEN NaN ELSE Infinity) ELSE Some(RoundDiv(a, b))

\* Object.assign(target, source)
Assign(target, source) ==
  [k \in DOMAIN target \cup DOMAIN source |->
     IF k \in DOMAIN source THEN source[k] ELSE target[k]]

\* target.key, undefined when the key is absent
Get(target, key) == IF key \in DOMAIN target THEN target[key] ELSE Undefined

\* ------------------------------------------------ prAnalysis, nktMetrics
\* pr.additions || 0 plus pr.deletions || 0
LinesOf(pr) == pr.additions + pr.deletions

SumSeq(list) == SumOver(DOMAIN list, list)

\* analyzePRsForWeek (prAnalysis lines 39-104): the pull-request count, the
\* lines per pull request and the tickets of the titles
analyzePRsForWeek(week, allPRs, offset) ==
  LET featurePRs == filterPRsForWeek(allPRs, week, offset)
      totalLOC == SumSeq([i \in DOMAIN featurePRs |-> LinesOf(featurePRs[i])])
      tickets == [i \in DOMAIN featurePRs |-> TitleTicket[featurePRs[i].title]]
  IN IF Len(featurePRs) = 0
     THEN [featurePRs |-> Some(0), locPerPR |-> Null]
     ELSE [featurePRs |-> Some(Len(featurePRs)),
           locPerPR |-> MathRound(totalLOC, Len(featurePRs)),
           prTickets |-> Filter(tickets, {i \in DOMAIN tickets : tickets[i] # Null})]

\* Date.prototype.getDay on the local calendar day; 2025-10-01 is a Wednesday
Weekday(localDay) == (localDay + 3) % 7

\* calculateBusinessDays (nktMetrics lines 10-25): the days current takes,
\* one local calendar day apart, while current <= end
calculateBusinessDays(startDate, endDate, offset) ==
  Cardinality({k \in 0..(endDate.day - startDate.day) :
                 /\ NotAfter([day |-> startDate.day + k, ms |-> startDate.ms], endDate)
                 /\ Weekday(Shift(startDate, offset).day + k) \notin {0, 6}})

\* calculateNKTForWeek (nktMetrics lines 31-78): nkt and cycleTime in
\* hundredths
calculateNKTForWeek(week, allPRs, offset) ==
  LET featurePRs == filterPRsForWeek(allPRs, week, offset)
      merged == Filter(featurePRs, {i \in DOMAIN featurePRs : featurePRs[i].mergedAt # Null})
      cycleTimes == [i \in DOMAIN merged |->
                       calculateBusinessDays(merged[i].createdAt, merged[i].mergedAt, offset)]
      total == SumSeq(cycleTimes)
      N == 13
      K == 1
  IN IF Len(featurePRs) = 0 THEN [nkt |-> Null, cycleTime |-> Null]
     ELSE [nkt |-> IF Len(cycleTimes) > 0 /\ total > 0
                   THEN Fixed2(N * K * Len(cycleTimes), total)
                   ELSE Fixed2(N * K, 1),
           cycleTime |-> IF Len(cycleTimes) > 0 /\ total > 0
                         THEN Fixed2(total, Len(cycleTimes))
                         ELSE Null]

\* getStoryPointsCompletedForWeek (jiraApi lines 67-96) with CONFIG.JIRA_TOKEN
\* set: the story points of the tickets of the week's pull requests
getStoryPointsCompletedForWeek(week, prTickets, tracker) ==
  IF Len(prTickets) = 0 THEN [storyPoints |-> 0]
  ELSE [storyPoints |->
          SumSeq([i \in DOMAIN prTickets |->
                    IF prTickets[i] \in DOMAIN tracker THEN tracker[prTickets[i]] ELSE 0])]

\* ------------------------------------------- bedrockCostParser, cost metrics
\* getCostsForWeek (bedrockCostParser lines 76-104): claudeCost in cents
getCostsForWeek(week, costs, offset) ==
  LET inWeek == {i \in DOMAIN costs : isInWeek(costs[i].date, week, offset)}
      claudeCost == SumOver(inWeek, [i \in inWeek |-> costs[i].claudeCost])
  IN IF Len(costs) = 0 THEN [claudeCost |-> Null]
     ELSE [claudeCost |-> IF claudeCost > 0 THEN Some(claudeCost) ELSE Null]

NoCost ==
  [totalCost |-> Null, costPerLOC |-> Null, costPerPR |-> Null, costPerSP |-> Null]

\* calculateCostMetrics (tokensPerSP lines 111-136): totalCost, costPerPR and
\* costPerSP in cents, costPerLOC in hundredths of a cent
calculateCostMetrics(week, weekTokens, storyPoints, featurePRs, totalLOC, costs, offset) ==
  LET cost == getCostsForWeek(week, costs, offset) IN
  IF ~Truthy(cost.claudeCost) THEN NoCost
  ELSE [totalCost |-> cost.claudeCost,
        costPerLOC |-> IF Positive(totalLOC) THEN Fixed2(cost.claudeCost[1], totalLOC[1])
                       ELSE Null,
        costPerPR |-> IF Positive(featurePRs) THEN MathRound(cost.claudeCost[1], featurePRs[1])
                      ELSE Null,
        costPerSP |-> IF Positive(storyPoints)
                      THEN MathRound(cost.claudeCost[1], storyPoints[1]) ELSE Null]

\* ----------------------------------------------- generateDashboard: inputs
MaxPRs == 2
MaxFaults == 1

\* the machine runs in UTC, in British Summer Time or in US Eastern time
TimeZones == {0, MsPerHour, -5 * MsPerHour}

At(date, ms) == [day |-> DayNumber(date), ms |-> ms]

Developer == [login |-> A_dev, is_bot |-> FALSE]

\* pull requests created around the boundary of Week 6 and Week 7
PRSamples ==
  << [title |-> P_AB1a, state |-> "MERGED", createdAt |-> At(Date(11, 12), 12 * MsPerHour),
      mergedAt |-> At(Date(11, 13), 15 * MsPerHour), additions |-> 4, deletions |-> 2,
      author |-> Developer],
     [title |-> P_AB1a, state |-> "MERGED", createdAt |-> At(Date(11, 19), 12 * MsPerHour),
      mergedAt |-> At(Date(11, 19), 13 * MsPerHour), additions |-> 1, deletions |-> 0,
      author |-> [login |-> A_infra, is_bot |-> FALSE]],
     [title |-> P_CD2, state |-> "MERGED", createdAt |-> At(Date(11, 14), MsPerDay - 1),
      mergedAt |-> At(Date(11, 17), 9 * MsPerHour), additions |-> 3, deletions |-> 0,
      author |-> Developer],
     [title |-> P_CD2, state |-> "MERGED", createdAt |-> At(Date(11, 17), 0),
      mergedAt |-> At(Date(11, 18), 9 * MsPerHour), additions |-> 0, deletions |-> 0,
      author |-> Developer],
     [title |-> P_CD2, state |-> "MERGED", createdAt |-> At(Date(11, 16), 23 * MsPerHour),
      mergedAt |-> At(Date(11, 19), 9 * MsPerHour), additions |-> 2, deletions |-> 2,
      author |-> Developer],
     [title |-> P_CD2, state |-> "MERGED", createdAt |-> At(Date(11, 12), 12 * MsPerHour),
      mergedAt |-> At(Date(11, 12), 16 * MsPerHour), additions |-> 1, deletions |-> 1,
      author |-> Developer],
     [title |-> P_EF3, state |-> "MERGED", createdAt |-> At(Date(11, 12), 12 * MsPerHour),
      mergedAt |-> At(Date(11, 14), 9 * MsPerHour), additions |-> 5, deletions |-> 0,
      author |-> Developer],
     [title |-> P_AB1a, state |-> "OPEN", createdAt |-> At(Date(11, 12), 12 * MsPerHour),
      mergedAt |-> Null, additions |-> 3, deletions |-> 1, author |-> Developer],
     [title |-> P_lower, state |-> "MERGED", createdAt |-> At(Date(11, 12), 12 * MsPerHour),
      mergedAt |-> At(Date(11, 12), 13 * MsPerHour), additions |-> 2, deletions |-> 0,
      author |-> Developer],
     [title |-> P_dep, state |-> "MERGED", createdAt |-> At(Date(11, 19), 12 * MsPerHour),
      mergedAt |-> At(Date(11, 19), 13 * MsPerHour), additions |-> 1, deletions |-> 1,
      author |-> [login |-> A_dev, is_bot |-> TRUE]] >>

\* the pull requests gh lists, numbered in order
Numbered(list) ==
  [i \in DOMAIN list |->
     [number |-> i, title |-> list[i].title, state |-> list[i].state,
      createdAt |-> list[i].createdAt, mergedAt |-> list[i].mergedAt,
      additions |-> list[i].additions, deletions |-> list[i].deletions,
      author |-> list[i].author]]

\* what the tracker can hold
JiraSamples ==
  { [t \in {T_AB1, T_CD2, T_EF3} |-> IF t = T_EF3 THEN 2 ELSE 3],
    [t \in {T_AB1, T_CD2, T_EF3} |-> IF t = T_AB1 THEN 5 ELSE IF t = T_CD2 THEN 0 ELSE 2],
    [t \in {} |-> 0] }

\* what the Bedrock cost file can hold: claudeCost in cents
BedrockSamples ==
  { << >>,
    << [date |-> ParseDate(Date(11, 12)), claudeCost |-> 150],
       [date |-> ParseDate(Date(11, 13)), claudeCost |-> 50],
       [date |-> ParseDate(Date(11, 18)), claudeCost |-> 75],
       [date |-> ParseDate(Date(11, 25)), claudeCost |-> 0] >> }

\* the transcript directory of the run
WeekFiles == <<<<L_brAB1, L_use, L_cmdCD2, L_use>>, <<L_brAB1, L_use>>>>

\* --------------------------------------------- generateDashboard: one week
MetricSources ==
  {"compactions", "categories", "interruptions", "tokenBreakdown", "prAnalysis",
   "nkt", "jira", "tokensPerSP", "costs", "quality"}

\* the sets of sources that can throw within the budget
FaultSets(budget) ==
  IF budget = 0 THEN {{}}
  ELSE {f \in SUBSET MetricSources : Cardinality(f) <= budget}

\* try { Object.assign(metrics, source(week)) } catch { }
Try(metrics, source, failed, result) ==
  IF source \in failed THEN metrics ELSE Assign(metrics, result)

\* hardcodedQualityMetrics, testCoverage in hundredths
HardcodedCoverage ==
  [w \in {"Week 1", "Week 2", "Week 3", "Week 4", "Week 5", "Week 6", "Week 7"} |->
     CASE w = "Week 3" -> Some(7986)
       [] w = "Week 4" -> Some(8523)
       [] w = "Week 5" -> Some(8977)
       [] w = "Week 6" -> Some(8750)
       [] w = "Week 7" -> Some(9213)
       [] OTHER -> Null]

\* what calculateTokensPerSPForWeek returns from its catch (lines 98-104)
TokensPerSPFailed == [tokensPerSP |-> Null, storyPoints |-> Null, totalTokens |-> Null]

\* lines 107-136: the tokens-per-story-point part and the derived metrics
WithTokenData(metrics, tokenData) ==
  LET weekTokens == Get(tokenData, "totalTokens")
      featurePRs == Get(metrics, "featurePRs")
      locPerPR == Get(metrics, "locPerPR")
      cycleTime == Get(metrics, "cycleTime")
      base == Assign(metrics,
                [tokensPerSP |-> Get(tokenData, "tokensPerSP"),
                 totalTokens |-> weekTokens,
                 ticketDetails |-> IF "ticketDetails" \in DOMAIN tokenData
                                   THEN tokenData.ticketDetails ELSE NoLinks])
  IN IF Truthy(weekTokens) /\ Truthy(featurePRs) /\ Truthy(locPerPR)
     THEN Assign(base,
            [locPerToken |-> Fixed8(featurePRs[1] * locPerPR[1], weekTokens[1]),
             tokensPerCycleTime |->
               IF Truthy(cycleTime) THEN MathRound(weekTokens[1] * 100, cycleTime[1])
               ELSE Undefined])
     ELSE base

\* lines 138-160: the cost part
WithCosts(metrics, week, costs, offset, failed) ==
  LET featurePRs == Get(metrics, "featurePRs")
      locPerPR == Get(metrics, "locPerPR")
      totalLOC == IF Truthy(featurePRs) /\ Truthy(locPerPR)
                  THEN Some(featurePRs[1] * locPerPR[1]) ELSE Some(0)
  IN IF "costs" \in failed THEN Assign(metrics, NoCost)
     ELSE Assign(metrics,
            calculateCostMetrics(week, Get(metrics, "totalTokens"),
                                 Get(metrics, "storyPoints"), featurePRs, totalLOC,
                                 costs, offset))

\* lines 89-105: the story points of the week's pull requests
WithStoryPoints(metrics, week, tracker, failed) ==
  LET prTickets == IF "prTickets" \in DOMAIN metrics THEN metrics.prTickets ELSE << >>
      jiraData == getStoryPointsCompletedForWeek(week, prTickets, tracker)
  IN Assign(metrics,
       [storyPoints |-> IF "jira" \notin failed /\ jiraData.storyPoints > 0
                        THEN Some(jiraData.storyPoints) ELSE Null])

\* lines 176-204: the quality part
WithQuality(metrics, week, failed) ==
  IF "quality" \notin failed /\ week.name \in DOMAIN HardcodedCoverage
  THEN Assign(metrics, [testCoverage |-> HardcodedCoverage[week.name]])
  ELSE metrics

\* lines 27-204: the metrics of one week when the sources in failed throw;
\* the transcript sources of lines 35-67 leave a mark for what they assign
WeekMetrics(week, tokenData, allPRs, tracker, costs, offset, failed) ==
  LET m0 == [week |-> week.name]
      m1 == Try(m0, "compactions", failed, [manualCompactions |-> "analyzed"])
      m2 == Try(m1, "categories", failed, [totalPrompts |-> "analyzed"])
      m3 == Try(m2, "interruptions", failed, [interruptions |-> "analyzed"])
      m4 == Try(m3, "tokenBreakdown", failed, [totalTokensBreakdown |-> "analyzed"])
      m5 == Try(m4, "prAnalysis", failed, analyzePRsForWeek(week, allPRs, offset))
      m6 == Try(m5, "nkt", failed, calculateNKTForWeek(week, allPRs, offset))
      m7 == WithStoryPoints(m6, week, tracker, failed)
      m8 == WithTokenData(m7, tokenData)
      m9 == WithCosts(m8, week, costs, offset, failed)
  IN WithQuality(m9, week, failed)

CollectWeek_AbortOnFailure(collected, metrics, failed) ==
  IF failed = {} THEN Append(collected, metrics) ELSE collected

\* weeklyMetrics.push(metrics), line 206: every source has its own catch
CollectWeek(collected, metrics, failed) == Append(collected, metrics)

\* w.key !== undefined ? w.key : otherwise
OrElse(w, key, otherwise) == IF Get(w, key) # Undefined THEN w[key] ELSE otherwise

\* buildWeeklyData (weeklyDataBuilder lines 9-45): the record written for one
\* week
WrittenRecord(w) ==
  [week |-> w.week,
   featurePRs |-> OrElse(w, "featurePRs", Some(0)),
   locPerPR |-> OrElse(w, "locPerPR", Null),
   locPerToken |-> OrElse(w, "locPerToken", Null),
   nkt |-> OrElse(w, "nkt", Null),
   cycleTime |-> OrElse(w, "cycleTime", Null),
   tokensPerSP |-> OrElse(w, "tokensPerSP", Null),
   tokensPerCycleTime |-> OrElse(w, "tokensPerCycleTime", Undefined),
   costPerLOC |-> OrElse(w, "costPerLOC", Null),
   costPerPR |-> OrElse(w, "costPerPR", Null),
   costPerSP |-> OrElse(w, "costPerSP", Null),
   storyPoints |-> OrElse(w, "storyPoints", Null),
   totalCost |-> OrElse(w, "totalCost", Some(0)),
   testCoverage |-> OrElse(w, "testCoverage", Null)]

buildWeeklyData(collected) == [i \in DOMAIN collected |-> WrittenRecord(collected[i])]

\* ------------------------------------------------ generateDashboard: state
WeekStart ==
  /\ weekIdx = 1
  /\ weeklyMetrics = << >>
  /\ prWeeks = {}
  /\ tokenSPData = << >>
  /\ sourceFailures = << >>
  /\ weeklyData = << >>

WeekInit ==
  /\ tz \in TimeZones
  /\ \E list \in [1..MaxPRs -> 1..Len(PRSamples)] :
       prs = Numbered([i \in 1..MaxPRs |-> PRSamples[list[i]]])
  /\ jira \in JiraSamples
  /\ bedrock \in BedrockSamples
  /\ faults = 0
  /\ WeekStart

\* the transcript pipeline as the dashboard generator uses it
TokForWeeks ==
  /\ pc = "weeks"
  /\ fileNo = 0
  /\ linesRead = 0
  /\ currentBranch = Null
  /\ currentTicketFromBranch = Null
  /\ currentTicketFromWorkflow = Null
  /\ tokensByTicket = EmptyMap
  /\ allTokensByTicket = EmptyMap
  /\ attributed = Null
  /\ usageSum = 0
  /\ wfAfterBranch = FALSE
  /\ brAfterWf = FALSE
  /\ files = WeekFiles
  /\ pending = {}

\* generateDashboard lines 24-213: one iteration of the loop over CONFIG.WEEKS
ProcessWeek ==
  /\ pc = "weeks"
  /\ weekIdx <= Len(WEEKS)
  /\ \E thrown \in FaultSets(faults) :
       LET week == WEEKS[weekIdx]
           allTokens == extractAllTokensOf(DOMAIN files)
           tokenData == IF "tokensPerSP" \in thrown THEN TokensPerSPFailed
                        ELSE calculateTokensPerSPForWeek(week, allTokens, prs, jira, tz)
           metrics == WeekMetrics(week, tokenData, prs, jira, bedrock, tz, thrown)
       IN /\ allTokensByTicket' = allTokens
          /\ tokenSPData' = tokenData
          /\ weeklyMetrics' = CollectWeek(weeklyMetrics, metrics, thrown)
          /\ sourceFailures' = Append(sourceFailures, thrown)
          /\ faults' = faults - Cardinality(thrown)
          /\ prWeeks' = prWeeks \cup
               {<<prs[i].number, weekIdx>> : i \in
                  {k \in 1..Len(prs) :
                     /\ "tokensPerSP" \notin thrown
                     /\ prs[k].state = "MERGED"
                     /\ TitleTicket[prs[k].title] # Null
                     /\ isInWeek(prs[k].createdAt, week, tz)}}
  /\ weekIdx' = weekIdx + 1
  /\ UNCHANGED <<tz, prs, jira, bedrock, weeklyData>>
  /\ UNCHANGED <<pc, fileNo, linesRead, currentBranch, currentTicketFromBranch,
                 currentTicketFromWorkflow, tokensByTicket, attributed, usageSum,
                 wfAfterBranch, brAfterWf, files, pending>>

\* generateDashboard lines 215-223: the file is written after the last week
WriteWeeklyData ==
  /\ pc = "weeks"
  /\ weekIdx > Len(WEEKS)
  /\ weeklyData' = buildWeeklyData(weeklyMetrics)
  /\ pc' = "written"
  /\ UNCHANGED <<tz, prs, jira, bedrock, weekIdx, weeklyMetrics, prWeeks, tokenSPData,
                 faults, sourceFailures>>
  /\ UNCHANGED <<fileNo, linesRead, currentBranch, currentTicketFromBranch,
                 currentTicketFromWorkflow, tokensByTicket, allTokensByTicket, attributed,
                 usageSum, wfAfterBranch, brAfterWf, files, pending>>

WeekNext == (ProcessWeek \/ WriteWeeklyData) /\ UNCHANGED <<csvVars, envVars>>

InitWeeks == WeekInit /\ TokForWeeks /\ CsvIdle /\ EnvIdle

SpecWeeks == InitWeeks /\ [][WeekNext]_vars

\* a run in which metric sources throw: two pull-request lists
FaultPRs ==
  { <<PRSamples[1], PRSamples[6]>>, <<PRSamples[7], PRSamples[3]>> }

FaultInit ==
  /\ tz \in {0, -5 * MsPerHour}
  /\ \E list \in FaultPRs : prs = Numbered(list)
  /\ jira = [t \in {T_AB1, T_CD2, T_EF3} |-> IF t = T_EF3 THEN 2 ELSE 3]
  /\ bedrock \in BedrockSamples
  /\ faults = MaxFaults
  /\ WeekStart

InitFaults == FaultInit /\ TokForWeeks /\ CsvIdle /\ EnvIdle

SpecFaults == InitFaults /\ [][WeekNext]_vars

\* ------------------------------------------------------- week joiner claims
\* the instant at which the clock of a zone offset milliseconds ahead of UTC
\* shows the given time of the given date
WallClock(date, ms, offset) == Shift([day |-> DayNumber(date), ms |-> ms], -offset)

\* the closed interval from week.start 00:00:00.000 to week.end 23:59:59.999
\* read on the clock of the zone
InClosedInterval(t, week, offset) ==
  /\ NotAfter(WallClock(week.start, 0, offset), t)
  /\ NotAfter(t, WallClock(week.end, MsPerDay - 1, offset))

\* the pull requests that can be linked: merged, with a ticket in the title
Linkable == {i \in 1..Len(prs) : prs[i].state = "MERGED" /\ TitleTicket[prs[i].title] # Null}

\* C9: a pull request is assigned to a week exactly when its creation time
\* lies in the closed interval from week.start 00:00:00.000 to week.end
\* 23:59:59.999, the days read either all in UTC or all on the machine's
\* clock; so one created at 23:59:59.999 on week[i].end is in week i and
\* one created at 00:00:00.000 on week[i+1].start is in week i+1.
C9_WeekClosedInterval ==
  \E zone \in {0, tz} :
    \A w \in 1..Len(weeklyMetrics) : \A i \in Linkable :
      <<prs[i].number, w>> \in prWeeks <=> InClosedInterval(prs[i].createdAt, WEEKS[w], zone)

\* the weeks whose bucket links the ticket, and those that count its tokens
LinkWeeks(ticket) ==
  {w \in 1..Len(weeklyMetrics) : ticket \in DOMAIN weeklyMetrics[w].ticketDetails}

TokenWeeks(ticket) ==
  {w \in LinkWeeks(ticket) : weeklyMetrics[w].ticketDetails[ticket].tokens # Null}

\* C10: each ticket has at most one pull-request link, and its token total
\* is counted in at most one week's bucket.
C10_OneWeekPerTicket ==
  \A ticket \in {T_AB1, T_CD2} :
    /\ Cardinality(LinkWeeks(ticket)) <= 1
    /\ Cardinality(TokenWeeks(ticket)) <= 1

\* ============================================ environment sections begin
\* ------------------------------ extractAllTokens: file by file, line by line
OpenNext_KeepTickets ==
  /\ pc = "files"
  /\ curFile = 0
  /\ \E f \in pending : curFile' = f
  /\ curLine' = 0
  /\ tokensByTicket' = FreshFileState.tokensByTicket
  /\ UNCHANGED <<currentBranch, currentTicketFromBranch, currentTicketFromWorkflow>>
  /\ UNCHANGED <<pc, fileNo, linesRead, allTokensByTicket, attributed, usageSum,
                 wfAfterBranch, brAfterWf, files, pending>>

\* lines 157-158 with lines 49-53: the loop takes a file not yet processed
\* (readdirSync fixes no order) and extractTokensFromTranscript starts on it
\* with fresh locals
OpenNext ==
  /\ pc = "files"
  /\ curFile = 0
  /\ \E f \in pending : curFile' = f
  /\ curLine' = 0
  /\ currentBranch' = FreshFileState.currentBranch
  /\ currentTicketFromBranch' = FreshFileState.currentTicketFromBranch
  /\ currentTicketFromWorkflow' = FreshFileState.currentTicketFromWorkflow
  /\ tokensByTicket' = FreshFileState.tokensByTicket
  /\ UNCHANGED <<pc, fileNo, linesRead, allTokensByTicket, attributed, usageSum,
                 wfAfterBranch, brAfterWf, files, pending>>

\* lines 55-106: the next line of the open file
ReadNext ==
  /\ pc = "files"
  /\ curFile # 0
  /\ curLine < Len(files[curFile])
  /\ LET st == processLine(FileState, files[curFile][curLine + 1]) IN
       /\ currentBranch' = st.currentBranch
       /\ currentTicketFromBranch' = st.currentTicketFromBranch
       /\ currentTicketFromWorkflow' = st.currentTicketFromWorkflow
       /\ tokensByTicket' = st.tokensByTicket
       /\ attributed' = ChangedKey(tokensByTicket, st.tokensByTicket)
  /\ curLine' = curLine + 1
  /\ UNCHANGED <<pc, fileNo, linesRead, allTokensByTicket, usageSum, wfAfterBranch,
                 brAfterWf, files, pending, curFile>>

\* line 108 and lines 161-179: the file's map is returned and merged
CloseCurrent ==
  /\ pc = "files"
  /\ curFile # 0
  /\ curLine = Len(files[curFile])
  /\ allTokensByTicket' = MergeInto(allTokensByTicket, tokensByTicket)
  /\ pending' = pending \ {curFile}
  /\ fileNo' = fileNo + 1
  /\ curFile' = 0
  /\ UNCHANGED <<pc, linesRead, currentBranch, currentTicketFromBranch,
                 currentTicketFromWorkflow, tokensByTicket, attributed, usageSum,
                 wfAfterBranch, brAfterWf, files, curLine>>

FilesInit ==
  /\ pc = "files"
  /\ fileNo = 0
  /\ linesRead = 0
  /\ currentBranch = Null
  /\ currentTicketFromBranch = Null
  /\ currentTicketFromWorkflow = Null
  /\ tokensByTicket = EmptyMap
  /\ allTokensByTicket = EmptyMap
  /\ attributed = Null
  /\ usageSum = 0
  /\ wfAfterBranch = FALSE
  /\ brAfterWf = FALSE
  /\ files \in [1..MaxFiles -> FileSamples]
  /\ pending = 1..MaxFiles
  /\ FilesIdle

FilesNext ==
  (OpenNext \/ ReadNext \/ CloseCurrent)
  /\ UNCHANGED <<csvVars, weekVars, loadVars, callVars, cacheVars>>

InitFiles == FilesInit /\ CsvIdle /\ WeekIdle /\ LoadIdle /\ CallsIdle /\ CacheIdle

SpecFiles == InitFiles /\ [][FilesNext]_vars

\* ------------------------------------------- dashboard loader: sessions, costs
MaxRows == 2

\* String.prototype.startsWith
startsWith(s, prefix) == HasAt(s, 1, prefix)

DigitChars == <<"0","1","2","3","4","5","6","7","8","9">>

DigitValue(c) == (CHOOSE n \in 1..10 : DigitChars[n] = c) - 1

RECURSIVE DigitsValue(_)
DigitsValue(s) ==
  IF s = << >> THEN 0
  ELSE DigitsValue(SubSeq(s, 1, Len(s) - 1)) * 10 + DigitValue(s[Len(s)])

\* parseInt(text): blanks, a sign, then the longest run of digits; NaN when
\* there is no digit. What follows the digits is ignored.
parseInt(text) ==
  LET t == trim(text)
      signed == t # << >> /\ t[1] \in {"-", "+"}
      start == IF signed THEN 2 ELSE 1
      end == DigitsEnd(t, start)
  IN IF end < start THEN NaN
     ELSE Some((IF signed /\ t[1] = "-" THEN 0 - 1 ELSE 1)
               * DigitsValue(SubSeq(t, start, end)))

\* parseFloat(text), in hundredths: digits, then a point and digits; NaN when
\* there is no digit. Decimals beyond the second and exponents are not read.
parseFloat(text) ==
  LET t == trim(text)
      signed == t # << >> /\ t[1] \in {"-", "+"}
      start == IF signed THEN 2 ELSE 1
      end == DigitsEnd(t, start)
      pointed == end + 1 <= Len(t) /\ t[end + 1] = "."
      fend == IF pointed THEN DigitsEnd(t, end + 2) ELSE end + 1
      frac == IF pointed THEN SubSeq(t, end + 2, fend) ELSE << >>
      two == SubSeq(frac \o <<"0", "0">>, 1, 2)
  IN IF end < start /\ frac = << >> THEN NaN
     ELSE Some((IF signed /\ t[1] = "-" THEN 0 - 1 ELSE 1)
               * (DigitsValue(SubSeq(t, start, end)) * 100 + DigitsValue(two)))

\* parseInt(x) || 0
OrNumber(v) == IF v = NaN \/ v = Some(0) THEN Some(0) ELSE v

RECURSIVE ToDigits(_)
ToDigits(n) ==
  IF n < 10 THEN <<DigitChars[n + 1]>>
  ELSE ToDigits(n \div 10) \o <<DigitChars[(n % 10) + 1]>>

\* `${number}` of an integer or NaN
NumberText(v) ==
  IF v = NaN THEN <<"N","a","N">>
  ELSE IF v[1] < 0 THEN <<"-">> \o ToDigits(0 - v[1]) ELSE ToDigits(v[1])

\* cols[i] (i counted from 0); a column that is not there reads as the text
\* undefined, which is what the key template and parseInt make of it
Col(cols, i) == IF i + 1 <= Len(cols) THEN cols[i + 1] ELSE K_undefined

P_agent == <<"a","g","e","n","t","_">>
HeaderNew == <<"s","e","s","s","i","o","n","_","i","d",",","a","g","e","n","t","_","i","d",",">>
HeaderOld == <<"s","e","s","s","i","o","n","_","i","d",",","u","s","e","r","_","i","d",",">>

hasAgentId_Never(cols) == FALSE

\* lines 394 and 454: cols[1] && cols[1].startsWith('agent_')
hasAgentId(cols) == Len(cols) >= 2 /\ cols[2] # << >> /\ startsWith(cols[2], P_agent)

\* lines 398-416
SessionOf(cols) ==
  LET k == IF hasAgentId(cols) THEN 1 ELSE 0 IN
  [sessionId |-> Col(cols, 0),
   branch |-> Col(cols, 4 + k),
   startedAt |-> parseInt(Col(cols, 6 + k)),
   endedAt |-> parseInt(Col(cols, 7 + k)),
   turns |-> parseInt(Col(cols, 8 + k)),
   cost |-> parseFloat(Col(cols, 9 + k)),
   interruptedTurns |-> OrNumber(parseInt(Col(cols, 10 + k)))]

Underscore == <<"_">>

\* line 420
SessionKey(s) ==
  s.sessionId \o Underscore \o s.branch \o Underscore \o NumberText(s.startedAt)
  \o Underscore \o NumberText(s.endedAt)

\* lines 458-470
CostOf(cols) ==
  LET k == IF hasAgentId(cols) THEN 1 ELSE 0 IN
  [sessionId |-> Col(cols, 0),
   turnNumber |-> Col(cols, 2 + k),
   messageId |-> Col(cols, 3 + k),
   totalTokens |-> OrNumber(parseInt(Col(cols, 9 + k)))]

\* line 473
CostKey(c) == c.sessionId \o Underscore \o c.turnNumber \o Underscore \o c.messageId

\* lines 479-482
CostPushed(c) == [sessionId |-> c.sessionId, totalTokens |-> c.totalTokens]

\* the records an export can hold; cost is in hundredths
SessionRecords ==
  { [sessionId |-> <<"S","1">>, agent |-> <<"a","g","e","n","t","_","7">>, user |-> <<"u">>,
     branch |-> <<"f","o","o">>, startedAt |-> 100, endedAt |-> 200, turns |-> 5,
     cost |-> 50, interruptedTurns |-> 1],
    [sessionId |-> <<"S","2">>, agent |-> <<"a","g","e","n","t","_","8">>, user |-> <<"v">>,
     branch |-> <<"b","a","r">>, startedAt |-> 300, endedAt |-> 400, turns |-> 1,
     cost |-> 125, interruptedTurns |-> 0],
    [sessionId |-> <<"S","3">>, agent |-> <<"a","g","e","n","t","_","9">>,
     user |-> <<"a","g","e","n","t","_","u">>,
     branch |-> <<"f","o","o">>, startedAt |-> 100, endedAt |-> 200, turns |-> 2,
     cost |-> 10, interruptedTurns |-> 0],
    [sessionId |-> <<"S","4">>, agent |-> << >>, user |-> <<"w">>,
     branch |-> <<"b","a","r">>, startedAt |-> 500, endedAt |-> 600, turns |-> 3,
     cost |-> 200, interruptedTurns |-> 2] }

CostRecords ==
  { [sessionId |-> <<"S","1">>, agent |-> <<"a","g","e","n","t","_","7">>, user |-> <<"u">>,
     turnNumber |-> <<"1">>, messageId |-> <<"m","1">>, totalTokens |-> 40],
    [sessionId |-> <<"S","1">>, agent |-> <<"a","g","e","n","t","_","7">>, user |-> <<"u">>,
     turnNumber |-> <<"2">>, messageId |-> <<"m","2">>, totalTokens |-> 55],
    [sessionId |-> <<"S","3">>, agent |-> <<"a","g","e","n","t","_","9">>,
     user |-> <<"a","g","e","n","t","_","u">>,
     turnNumber |-> <<"1">>, messageId |-> <<"m","3">>, totalTokens |-> 7],
    [sessionId |-> <<"S","4">>, agent |-> << >>, user |-> <<"w">>,
     turnNumber |-> <<"1">>, messageId |-> <<"m","4">>, totalTokens |-> 9] }

Schemas == {"legacy", "current"}

\* a number of hundredths written with two decimals
Decimal(h) == ToDigits(h \div 100) \o <<".">> \o ToDigits((h % 100) \div 10) \o ToDigits(h % 10)

\* the line of a session in a schema (the column orders of lines 392 and
\* 408-415: the current schema has agent_id as its second column)
SessionLine(r, schema) ==
  Join(<<r.sessionId>> \o (IF schema = "current" THEN <<r.agent>> ELSE << >>)
       \o <<r.user, <<"r">>, <<"n">>, r.branch, <<"h">>, ToDigits(r.startedAt),
            ToDigits(r.endedAt), ToDigits(r.turns), Decimal(r.cost),
            ToDigits(r.interruptedTurns)>>, <<",">>)

\* the line of a cost entry in a schema (lines 452 and 465-469)
CostLine(c, schema) ==
  Join(<<c.sessionId>> \o (IF schema = "current" THEN <<c.agent>> ELSE << >>)
       \o <<c.user, c.turnNumber, c.messageId, <<"m">>, <<"b">>, <<"t">>, <<"1">>, <<"2">>,
            ToDigits(c.totalTokens)>>, <<",">>)

H_sessionsNew == HeaderNew \o <<"u","s","e","r","_","i","d">>

SessionLines ==
  {SessionLine(r, s) : r \in SessionRecords, s \in Schemas} \cup {<< >>, H_sessionsNew}

CostLines ==
  {CostLine(c, s) : c \in CostRecords, s \in Schemas} \cup {<< >>, H_sessionsNew}

\* lines 383-435 and 443-483: one iteration of the loop
LoadLine ==
  /\ loadType # "none"
  /\ lineIdx <= Len(sourceLines)
  /\ LET line == trim(sourceLines[lineIdx])
         cols == Split(line, ",")
         key == IF loadType = "sessions.csv" THEN SessionKey(SessionOf(cols))
                ELSE CostKey(CostOf(cols))
     IN IF line = << >> \/ startsWith(line, HeaderNew) \/ startsWith(line, HeaderOld)
        THEN UNCHANGED <<loaded, seenLoaded>>
        ELSE IF key \in seenLoaded THEN UNCHANGED <<loaded, seenLoaded>>
        ELSE /\ seenLoaded' = seenLoaded \cup {key}
             /\ loaded' = Append(loaded, IF loadType = "sessions.csv" THEN SessionOf(cols)
                                         ELSE CostPushed(CostOf(cols)))
  /\ lineIdx' = lineIdx + 1
  /\ UNCHANGED <<loadType, sourceLines>>

\* lines 377-381 and 437-441: the file is read and split, the loop starts at
\* the second line
LoadInit ==
  /\ loadType \in {"sessions.csv", "costs.csv"}
  /\ \E rows \in [1..MaxRows -> IF loadType = "sessions.csv" THEN SessionLines ELSE CostLines] :
       sourceLines = Split(trim(Content(H_sessionsNew, rows)), "\n")
  /\ lineIdx = 2
  /\ loaded = << >>
  /\ seenLoaded = {}

LoadNext ==
  LoadLine /\ UNCHANGED <<tokVars, csvVars, weekVars, fileVars, callVars, cacheVars>>

InitLoad ==
  LoadInit /\ TokIdle /\ CsvIdle /\ WeekIdle /\ FilesIdle /\ CallsIdle /\ CacheIdle

SpecLoad == InitLoad /\ [][LoadNext]_vars

\* --------------------------------------- jiraApi, sonarUtils: requests made
MaxCalls == 5
MaxTickets == 2

\* the requests and sleeps a function executes, in order
Repeat(n, events) ==
  [i \in 1..(n * Len(events)) |-> events[((i - 1) % Len(events)) + 1]]

\* getStoryPoints (jiraApi lines 8-31): one curl when the token is set
CallsOfGetStoryPoints(token) == IF token THEN <<"jira">> ELSE << >>

\* getStoryPointsForTickets (jiraApi lines 36-52) on n tickets: a sleep after
\* every ticket but the last
CallsOfGetStoryPointsForTickets(n, token) ==
  IF n = 0 THEN << >>
  ELSE Repeat(n - 1, CallsOfGetStoryPoints(token) \o <<"sleep">>)
       \o CallsOfGetStoryPoints(token)

\* getStoryPointsCompletedForWeek (jiraApi lines 67-96) on n tickets
CallsOfGetStoryPointsCompletedForWeek(n, token) ==
  IF ~token \/ n = 0 THEN << >>
  ELSE Repeat(n, CallsOfGetStoryPoints(token))

\* fetchSonarMetricsForPR (sonarUtils lines 138-165)
CallsOfFetchSonarMetricsForPR(token) == IF token THEN <<"sonar">> ELSE << >>

\* aggregateSonarMetrics (sonarUtils lines 171-202) on n pull requests: a
\* sleep after each
CallsOfAggregateSonarMetrics(n, token) ==
  Repeat(n, CallsOfFetchSonarMetricsForPR(token) \o <<"sleep">>)

\* fetchSonarMetricsForWeek (sonarUtils lines 41-132): the history, then the
\* measures when the history holds an analysis
CallsOfFetchSonarMetricsForWeek(token, analysed) ==
  IF ~token THEN << >>
  ELSE IF analysed THEN <<"sonar", "sonar">> ELSE <<"sonar">>

Executes(events) ==
  /\ Len(calls) + Len(events) <= MaxCalls
  /\ calls' = calls \o events
  /\ UNCHANGED <<jiraToken, sonarToken>>

\* tokensPerSP line 64
StoryPointsForTickets ==
  \E n \in 0..MaxTickets : Executes(CallsOfGetStoryPointsForTickets(n, jiraToken))

\* generateDashboard line 94
StoryPointsCompletedForWeek ==
  \E n \in 0..MaxTickets : Executes(CallsOfGetStoryPointsCompletedForWeek(n, jiraToken))

\* prAnalysis line 81
AggregateSonarMetrics ==
  \E n \in 0..MaxTickets : Executes(CallsOfAggregateSonarMetrics(n, sonarToken))

\* generateDashboard: the week's quality metrics
SonarMetricsForWeek ==
  \E analysed \in BOOLEAN : Executes(CallsOfFetchSonarMetricsForWeek(sonarToken, analysed))

CallsInit ==
  /\ calls = << >>
  /\ jiraToken \in BOOLEAN
  /\ sonarToken \in BOOLEAN

CallsNext ==
  (StoryPointsForTickets \/ StoryPointsCompletedForWeek \/ AggregateSonarMetrics
   \/ SonarMetricsForWeek)
  /\ UNCHANGED <<tokVars, csvVars, weekVars, fileVars, loadVars, cacheVars>>

InitCalls == CallsInit /\ TokIdle /\ CsvIdle /\ WeekIdle /\ FilesIdle /\ LoadIdle /\ CacheIdle

SpecCalls == InitCalls /\ [][CallsNext]_vars

\* ------------------------------------------------- prAnalysis: fetchAllPRs
MaxClock == 2

\* prAnalysis line 12, in milliseconds
CACHE_TTL == 5 * 60 * 1000

\* the lists of pull-request numbers a fetch can return
PRLists == {<< >>, <<1>>, <<1, 2>>}

\* the time that passes between two calls
ClockSteps == {CACHE_TTL \div 2 - 1, CACHE_TTL \div 2, CACHE_TTL \div 2 + 1}

CacheValid_Early(cache, timestamp, t) ==
  Len(cache) = 1 /\ Truthy(timestamp) /\ t - timestamp[1] < CACHE_TTL - 1

\* prAnalysis line 18: an array, empty or not, is truthy
CacheValid(cache, timestamp, t) ==
  Len(cache) = 1 /\ Truthy(timestamp) /\ t - timestamp[1] < CACHE_TTL

CallRecord(fetched, threw, result) ==
  [at |-> now, fetched |-> fetched, threw |-> threw, result |-> result,
   priorAt |-> successAt, priorStored |-> stored,
   cacheBefore |-> cachedPRs, stampBefore |-> cacheTimestamp]

\* lines 18-20
ReturnCached ==
  /\ CacheValid(cachedPRs, cacheTimestamp, now)
  /\ lastCall' = CallRecord(FALSE, FALSE, cachedPRs)
  /\ UNCHANGED <<now, cachedPRs, cacheTimestamp, successAt, stored>>

\* lines 22-32: execSync and JSON.parse return
FetchReturns ==
  /\ ~CacheValid(cachedPRs, cacheTimestamp, now)
  /\ \E list \in PRLists :
       /\ cachedPRs' = Some(list)
       /\ cacheTimestamp' = Some(now)
       /\ lastCall' = CallRecord(TRUE, FALSE, Some(list))
       /\ successAt' = Some(now)
       /\ stored' = Some(list)
  /\ UNCHANGED now

\* lines 24-29: execSync or JSON.parse throws, and fetchAllPRs with it
FetchThrows ==
  /\ ~CacheValid(cachedPRs, cacheTimestamp, now)
  /\ lastCall' = CallRecord(TRUE, TRUE, Null)
  /\ UNCHANGED <<now, cachedPRs, cacheTimestamp, successAt, stored>>

\* Date.now() between two calls
Tick ==
  /\ \E step \in ClockSteps :
       /\ now + step <= MaxClock * CACHE_TTL
       /\ now' = now + step
  /\ UNCHANGED <<cachedPRs, cacheTimestamp, lastCall, successAt, stored>>

\* lines 10-11
CacheInit ==
  /\ now = 1
  /\ cachedPRs = Null
  /\ cacheTimestamp = Null
  /\ lastCall = << >>
  /\ successAt = Null
  /\ stored = Null

CacheNext ==
  (ReturnCached \/ FetchReturns \/ FetchThrows \/ Tick)
  /\ UNCHANGED <<tokVars, csvVars, weekVars, fileVars, loadVars, callVars>>

InitCache == CacheInit /\ TokIdle /\ CsvIdle /\ WeekIdle /\ FilesIdle /\ LoadIdle /\ CallsIdle

SpecCache == InitCache /\ [][CacheNext]_vars

\* ------------------------------------ merge_analytics: line ends of a source
CRLF == <<"\r", "\n">>
LF == <<"\n">>

\* files that hold a copy of their header line among the data lines, written
\* with either line end, and one whose header line ends with a blank
EolSources ==
  {MissingFile}
  \cup {[exists |-> TRUE, header |-> H_sessions, rows |-> rows, eol |-> eol] :
          rows \in {<<R_s1, H_sessions, R_s2>>, <<R_s3>>}, eol \in {LF, CRLF}}
  \cup {[exists |-> TRUE, header |-> H_sessions \o <<" ">>,
         rows |-> <<R_s1, H_sessions \o <<" ">> >>, eol |-> LF]}

EolInit ==
  /\ csvFile \in MergedTypes
  /\ sources \in [1..NumSources -> EolSources]
  /\ srcIdx = 1
  /\ mpc = "merging"
  /\ masterHeaders = FreshMerge.masterHeaders
  /\ hasMaster = FreshMerge.hasMaster
  /\ allRows = FreshMerge.allRows
  /\ seenKeys = FreshMerge.seenKeys
  /\ filesFound = FreshMerge.filesFound
  /\ inputRows = FreshMerge.inputRows
  /\ duplicates = FreshMerge.duplicates
  /\ output = << >>
  /\ acceptedRows = << >>

InitEol == EolInit /\ TokIdle /\ WeekIdle /\ EnvIdle

SpecEol == InitEol /\ [][MergeNext]_vars

\* ============================================== environment sections end

\* ------------------------------------------------------- dashboard claims
\* the ticket of a pull request's title
TicketOf(i) == TitleTicket[prs[i].title]

\* the weeks processed so far
Processed == 1..Len(weeklyMetrics)

\* C11: a ticket's whole token total is attributed as one lump sum to the
\* week that contains the creation time of its merged pull request (the days
\* read either all in UTC or all on the machine's clock), whatever the merge
\* date and the transcript timestamps.
C11_LumpSumInCreationWeek ==
  \E zone \in {0, tz} :
    \A w \in Processed : \A i \in Linkable :
      (/\ TicketOf(i) \in DOMAIN allTokensByTicket
       /\ InClosedInterval(prs[i].createdAt, WEEKS[w], zone))
      => /\ TicketOf(i) \in DOMAIN weeklyMetrics[w].ticketDetails
         /\ weeklyMetrics[w].ticketDetails[TicketOf(i)].tokens
              = Some(allTokensByTicket[TicketOf(i)].total)

\* the tickets linked in the last week processed, those of them with story
\* points, and those of them with attributed tokens as well
LastWeek == WEEKS[Len(weeklyMetrics)]

LinkedTickets ==
  {TicketOf(i) : i \in {k \in Linkable : isInWeek(prs[k].createdAt, LastWeek, tz)}}

PointedTickets == {t \in LinkedTickets : t \in DOMAIN jira /\ jira[t] # 0}

TokenTickets == {t \in PointedTickets : t \in DOMAIN allTokensByTicket}

PointsOf(tickets) == SumOver(tickets, [t \in tickets |-> jira[t]])

TokensOf(tickets) == SumOver(tickets, [t \in tickets |-> allTokensByTicket[t].total])

\* the integer nearest to a / b, halves up (a >= 0, b > 0)
Nearest(a, b) == CHOOSE n \in 0..(a + 1) : 2 * b * n <= 2 * a + b /\ 2 * a + b < 2 * b * (n + 1)

\* the last week was processed by calculateTokensPerSPForWeek and linked a
\* ticket
WeekLinked ==
  /\ weeklyMetrics # << >>
  /\ sourceFailures[Len(sourceFailures)] = {}
  /\ LinkedTickets # {}

NumberOf(v) == IF Len(v) = 1 THEN v[1] ELSE 0

Written == pc = "written"

\* C14: in each week's record tokensPerCycleTime is
\* round((totalTokens / featurePRs) / cycleTime) when featurePRs > 0 and
\* cycleTime > 0 (checked where the week has a token total), and null
\* otherwise.
C14_TokensPerCycleTime ==
  Written =>
    \A w \in DOMAIN weeklyData :
      LET written == weeklyData[w]
          tokens == Get(weeklyMetrics[w], "totalTokens")
      IN IF Positive(written.featurePRs) /\ Positive(written.cycleTime)
         THEN Positive(tokens) =>
                written.tokensPerCycleTime
                  = Some(Nearest(tokens[1] * 100,
                                 written.featurePRs[1] * written.cycleTime[1]))
         ELSE written.tokensPerCycleTime = Null

\* a value that is zero, null or was never set
Missing(v) == v \in {Null, Undefined, Some(0)}

\* null or a number: not NaN, not Infinity, not undefined
NullOrNumber(v) == v = Null \/ (Len(v) = 1 /\ v[1] \in Nat)

\* the lines changed in a week's record
LinesChanged(written) ==
  IF Missing(written.featurePRs) \/ Missing(written.locPerPR) THEN Some(0)
  ELSE Some(written.featurePRs[1] * written.locPerPR[1])

\* C15: in every weekly record locPerToken, costPerSP, costPerPR and
\* costPerLOC are null or numbers, and each is null whenever its divisor
\* (token total, story points, feature pull requests, lines changed) is zero
\* or absent or the week has no cost, no lines or no token total to divide.
C15_NullWithoutData ==
  Written =>
    \A w \in DOMAIN weeklyData :
      LET written == weeklyData[w]
          tokens == Get(weeklyMetrics[w], "totalTokens")
      IN /\ \A name \in {"locPerToken", "costPerSP", "costPerPR", "costPerLOC"} :
              NullOrNumber(written[name])
         /\ Missing(tokens) \/ Missing(LinesChanged(written)) => written.locPerToken = Null
         /\ Missing(written.totalCost) \/ Missing(written.storyPoints)
              => written.costPerSP = Null
         /\ Missing(written.totalCost) \/ Missing(written.featurePRs)
              => written.costPerPR = Null
         /\ Missing(written.totalCost) \/ Missing(LinesChanged(written))
              => written.costPerLOC = Null

\* a run with a week that has a cost and no feature pull request, and a week
\* that has a cost and a feature pull request without changed lines
C15_Witness ==
  /\ Written
  /\ \E w \in DOMAIN weeklyData :
       /\ ~Missing(weeklyData[w].totalCost)
       /\ weeklyData[w].featurePRs = Some(0)
       /\ weeklyData[w].costPerPR = Null
  /\ \E w \in DOMAIN weeklyData :
       /\ ~Missing(weeklyData[w].totalCost)
       /\ ~Missing(weeklyData[w].featurePRs)
       /\ weeklyData[w].locPerPR = Some(0)
       /\ weeklyData[w].costPerLOC = Null
       /\ weeklyData[w].locPerToken = Null

\* the fields each metric source assigns
OwnFields(source) ==
  CASE source = "compactions" -> {"manualCompactions"}
    [] source = "categories" -> {"totalPrompts"}
    [] source = "interruptions" -> {"interruptions"}
    [] source = "tokenBreakdown" -> {"totalTokensBreakdown"}
    [] source = "prAnalysis" -> {"featurePRs", "locPerPR"}
    [] source = "nkt" -> {"nkt", "cycleTime"}
    [] source = "jira" -> {"storyPoints"}
    [] source = "tokensPerSP" -> {"tokensPerSP", "totalTokens", "ticketDetails"}
    [] source = "costs" -> {"totalCost", "costPerLOC", "costPerPR", "costPerSP"}
    [] source = "quality" -> {}

\* the sources that read nothing another source assigns
Independent ==
  {"compactions", "categories", "interruptions", "tokenBreakdown", "prAnalysis", "nkt"}

\* the record of week w when no source throws
Undisturbed(w) ==
  WeekMetrics(WEEKS[w], calculateTokensPerSPForWeek(WEEKS[w], allTokensByTicket, prs, jira, tz),
              prs, jira, bedrock, tz, {})

\* C16: whatever sources throw in a week, the week's record is appended
\* (one record per week processed, in configuration order), every source
\* that did not throw has assigned its fields, those of the sources that
\* read no other source's result with the values of an undisturbed run (seen
\* on each record as it is appended), and the file written at the end has one
\* record per configured week, in order.
C16_SourceFailuresIsolated ==
  /\ Len(weeklyMetrics) = weekIdx - 1
  /\ Len(sourceFailures) = weekIdx - 1
  /\ \A w \in Processed :
       /\ weeklyMetrics[w].week = WEEKS[w].name
       /\ \A source \in MetricSources \ sourceFailures[w] :
            OwnFields(source) \subseteq DOMAIN weeklyMetrics[w]
  /\ weeklyMetrics # << >> =>
       LET w == Len(weeklyMetrics)
           undisturbed == Undisturbed(w)
       IN \A source \in Independent \ sourceFailures[w] :
            \A name \in OwnFields(source) : weeklyMetrics[w][name] = undisturbed[name]
  /\ Written =>
       /\ Len(weeklyData) = Len(WEEKS)
       /\ \A w \in DOMAIN weeklyData : weeklyData[w].week = WEEKS[w].name

\* a finished run in which the pull-request analysis of a week with feature
\* pull requests threw and the week still has its cycle time and cost
C16_Witness ==
  /\ Written
  /\ \E w \in DOMAIN weeklyData :
       /\ sourceFailures[w] = {"prAnalysis"}
       /\ "featurePRs" \notin DOMAIN weeklyMetrics[w]
       /\ Positive(weeklyData[w].cycleTime)
       /\ Positive(weeklyData[w].totalCost)

\* a line that is not valid JSON leaves the attribution state and the token
\* counters as they were, and the loop goes on in the same file
BadLineSkipped ==
  /\ UNCHANGED <<currentBranch, currentTicketFromBranch, currentTicketFromWorkflow>>
  /\ UNCHANGED <<tokensByTicket, allTokensByTicket>>
  /\ pc' = "lines"
  /\ fileNo' = fileNo

\* C17: a transcript line that is not valid JSON is skipped without changing
\* the attribution state or any token counter, processing continues with the
\* next line of the same file, and the parse-error counter is one higher
\* after each such line.
C17_BadLineSkippedAndCounted ==
  [][ReadThe(BadLine) => (BadLineSkipped /\ ParseErrorCount' = ParseErrorCount + 1)]_vars

\* the header of the file in input folder i, and the first folder that has
\* the file
HeaderOf(i) == readCSV(FileOf(sources[i]).content).headers

FirstFound == CHOOSE i \in DOMAIN sources : sources[i].exists /\ \A j \in 1..(i - 1) : ~sources[j].exists

\* folder i holds a file whose header differs from that of the first file
\* accepted
Mismatched(i) ==
  /\ sources[i].exists
  /\ i # FirstFound
  /\ HeaderOf(i) # HeaderOf(FirstFound)

\* the folders read so far, without the files of a differing header
ReadWithoutMismatched ==
  [i \in 1..(srcIdx - 1) |-> IF Mismatched(i) THEN MissingFile ELSE sources[i]]

\* C18: a source whose header differs from that of the first accepted source
\* adds none of its rows; the rows merged before it are kept and the sources
\* after it are merged as usual: at every point of the loop the rows, the keys
\* and the header are those of a merge from which that source is absent.
C18_MismatchedSourceExcluded ==
  LET clean == mergeSources(csvFile, [i \in DOMAIN ReadWithoutMismatched |->
                                        FileOf(ReadWithoutMismatched[i])])
  IN /\ allRows = clean.allRows
     /\ seenKeys = clean.seenKeys
     /\ masterHeaders = clean.masterHeaders
     /\ mpc = "written" => output = <<Join(clean.masterHeaders, <<",">>)>> \o clean.allRows

\* a merge written from an accepted file, a file of another header and a
\* third file that added a row
C18_Witness ==
  /\ mpc = "written"
  /\ sources[1].exists
  /\ Mismatched(2)
  /\ sources[3].exists
  /\ ~Mismatched(3)
  /\ Len(allRows) > Len(readCSV(FileOf(sources[1]).content).rows)
  /\ filesFound = 3

\* the tickets linked in week w: those of a merged pull request created in it
LinkedIn(w) ==
  {TicketOf(i) : i \in {k \in Linkable : isInWeek(prs[k].createdAt, WEEKS[w], tz)}}

\* the tickets with tokens that no configured week links
NeverLinked ==
  {t \in DOMAIN allTokensByTicket : \A w \in 1..Len(WEEKS) : t \notin LinkedIn(w)}

\* C19: the tokens of a ticket without a merged pull request created in any
\* configured week are in no week's total and are recorded in a separate
\* tally, so that the run reports them.
C19_ExcludedTokensTallied ==
  Written =>
    /\ \A w \in DOMAIN weeklyMetrics :
         NumberOf(Get(weeklyMetrics[w], "totalTokens"))
           <= TokensOf(LinkedIn(w) \cap DOMAIN allTokensByTicket)
    /\ ExcludedTokensTally = TokensOf(NeverLinked)

\* the pull requests of the run that are merged
MergedOnly == SelectSeq(prs, LAMBDA pr : pr.state = "MERGED")

\* the pull requests of the run that are not merged
Unmerged == {i \in 1..Len(prs) : prs[i].state # "MERGED"}

\* C20: a pull request that is not MERGED creates no ticket link and adds no
\* tokens, story points or feature-PR count to any week: every week's link
\* details name merged pull requests only, and its token data and its record
\* are those of a run without the unmerged pull requests.
C20_UnmergedNeverContributes ==
  weeklyMetrics # << >> =>
    LET w == Len(weeklyMetrics)
        without == calculateTokensPerSPForWeek(WEEKS[w], allTokensByTicket, MergedOnly, jira, tz)
    IN /\ "ticketDetails" \in DOMAIN tokenSPData =>
            \A t \in DOMAIN tokenSPData.ticketDetails :
              tokenSPData.ticketDetails[t].prNumber \notin Unmerged
       /\ tokenSPData = without
       /\ weeklyMetrics[w] = WeekMetrics(WEEKS[w], without, MergedOnly, jira, bedrock, tz, {})
       /\ NumberOf(Get(weeklyMetrics[w], "featurePRs"))
            <= Cardinality((1..Len(prs)) \ Unmerged)

\* a processed week in which an open pull request was created, whose ticket
\* has tokens and story points and no merged pull request: the week links
\* nothing for it and counts no feature pull request of it
C20_Witness ==
  /\ Len(weeklyMetrics) = 6
  /\ \E i \in Unmerged :
       /\ isInWeek(prs[i].createdAt, WEEKS[6], tz)
       /\ TicketOf(i) \in DOMAIN allTokensByTicket
       /\ TicketOf(i) \in DOMAIN jira /\ jira[TicketOf(i)] # 0
       /\ TicketOf(i) \notin LinkedIn(6)
       /\ \E k \in Linkable : TicketOf(k) \in LinkedIn(6)
       /\ tokenSPData.totalTokens # Null
       /\ TicketOf(i) \notin DOMAIN tokenSPData.ticketDetails
       /\ Get(weeklyMetrics[6], "featurePRs") = Some(1)

\* ---------------------------------------------------- attribution claims
\* the keys of the file's map and of the global map
TokenKeys == DOMAIN tokensByTicket \cup DOMAIN allTokensByTicket

\* C21: the ticket VIBE-516 found in a branch name or in a workflow argument
\* is remapped to VIBE-216 before attribution: neither ticket slot ever holds
\* VIBE-516 and no tokens are accumulated under the key VIBE-516.
C21_TypoRemapped ==
  /\ currentTicketFromBranch # T_VIBE516
  /\ currentTicketFromWorkflow # T_VIBE516
  /\ T_VIBE516 \notin TokenKeys
  /\ currentBranch = B_typo => currentTicketFromBranch = T_VIBE216

\* the six counters of a ticket's totals
Counters(t) == {t.total, t.input, t.output, t.cacheCreation, t.cacheRead, t.thinking}

\* C22: negative usage fields are coerced to zero before accumulation: every
\* counter of every ticket, in the file's map and in the global map, is a
\* non-negative integer.
C22_CountersNonNegative ==
  /\ \A k \in DOMAIN tokensByTicket : \A n \in Counters(tokensByTicket[k]) : n \in Nat
  /\ \A k \in DOMAIN allTokensByTicket : \A n \in Counters(allTokensByTicket[k]) : n \in Nat

\* C24: an event whose gitBranch is non-empty and holds no ticket (the
\* branch main) leaves the branch ticket unchanged, so that without a
\* workflow ticket its usage goes to the ticket of the last branch that held
\* one.
C24_BranchTicketKept ==
  [][\A line \in Lines :
       (ReadThe(line) /\ line.parse /\ line.gitBranch = B_main)
       => /\ currentTicketFromBranch' = currentTicketFromBranch
          /\ (/\ line.type = "assistant" /\ line.hasUsage
              /\ currentTicketFromWorkflow' = Null
              /\ currentTicketFromBranch # Null)
               => attributed' = currentTicketFromBranch]_vars

\* the ticket a line of Lines names in its own gitBranch, and in its own
\* workflow command
OwnBranchTicket(line) ==
  IF line.gitBranch = B_ab1 THEN T_AB1
  ELSE IF line.gitBranch = B_cd2 THEN T_CD2 ELSE Null

OwnCommandTicket(line) ==
  IF line.content = C_cmdCD2 THEN T_CD2
  ELSE IF line.content = C_cmdEF3 THEN T_EF3 ELSE Null

\* C25: the state updates of an event come before its attribution: the usage
\* of an assistant event that carries a workflow command with a ticket goes
\* to that ticket, and the usage of one that carries a gitBranch with a
\* ticket goes to that ticket unless a workflow ticket is set, whatever the
\* tickets were before the event.
C25_UpdatesBeforeAttribution ==
  [][\A line \in Lines :
       (ReadThe(line) /\ line.parse /\ line.type = "assistant" /\ line.hasUsage)
       => /\ OwnCommandTicket(line) # Null => attributed' = OwnCommandTicket(line)
          /\ (/\ OwnCommandTicket(line) = Null
              /\ OwnBranchTicket(line) # Null
              /\ currentTicketFromWorkflow = Null)
               => attributed' = OwnBranchTicket(line)]_vars

\* the first line of the run is a usage event that carries a workflow
\* command: its tokens are under the ticket of that command
C25_Witness ==
  /\ linesRead = 1
  /\ attributed = T_CD2
  /\ currentTicketFromWorkflow = T_CD2
  /\ tokensByTicket[T_CD2].thinking = 1

\* an upper-case identifier LETTERS-DIGITS
IsTicketId(k) ==
  \E j \in 2..(Len(k) - 1) :
    /\ k[j] = "-"
    /\ \A i \in 1..(j - 1) : IsUpper(k[i])
    /\ \A i \in (j + 1)..Len(k) : IsDigit(k[i])

\* equal but for the case of the letters
SameButCase(a, b) ==
  /\ Len(a) = Len(b)
  /\ \A i \in 1..Len(a) :
       \/ a[i] = b[i]
       \/ \E n \in 1..26 : {a[i], b[i]} = {UpperLetters[n], LowerLetters[n]}

\* C30: every key of the file's map and of the global map is UNATTRIBUTED or
\* an upper-case identifier LETTERS-DIGITS, whatever the case used in the
\* branch names and the workflow arguments, and no two keys differ only in
\* the case of their letters.
C30_KeysUpperCase ==
  /\ \A k \in TokenKeys : k = UNATTRIBUTED \/ IsTicketId(k)
  /\ \A k, l \in TokenKeys : SameButCase(k, l) => k = l

\* tokens of a ticket written in lower case in the branch name, added in a
\* second file to those the ticket has from the first
C30_Witness ==
  /\ fileNo = 2
  /\ currentBranch = B_ab1
  /\ currentTicketFromWorkflow = Null
  /\ attributed = T_AB1
  /\ T_AB1 \in DOMAIN allTokensByTicket
  /\ TokenKeys = {T_AB1}

\* the files read to their end so far
Finished == DOMAIN files \ pending

\* C23: the attribution state is created empty for each transcript file and
\* is not carried to another: whatever the order of the files, the map of the
\* file being read is that of its lines read so far taken alone, and the
\* global totals are those of the finished files, each processed alone.
C23_FreshStatePerFile ==
  /\ curFile # 0 =>
       /\ tokensByTicket = extractTokensFromTranscript(SubSeq(files[curFile], 1, curLine))
       /\ curLine = 0 => /\ currentTicketFromBranch = Null
                         /\ currentTicketFromWorkflow = Null
                         /\ currentBranch = Null
  /\ allTokensByTicket = extractAllTokensOf(Finished)

\* a usage event without a ticket of its own file is UNATTRIBUTED in a file
\* read after one that set the branch ticket AB-1
C23_Witness ==
  /\ curFile # 0
  /\ Finished # {}
  /\ \A f \in Finished : files[f] = <<L_brAB1, L_use, BadLine>>
  /\ files[curFile] = <<L_use>>
  /\ curLine = 1
  /\ attributed = UNATTRIBUTED
  /\ DOMAIN allTokensByTicket = {T_AB1}

\* the records of the type being loaded, and the line of one in a schema
RecordsLoaded == IF loadType = "sessions.csv" THEN SessionRecords ELSE CostRecords

LineOf(r, schema) ==
  IF loadType = "sessions.csv" THEN SessionLine(r, schema) ELSE CostLine(r, schema)

\* the canonical values of a record, and its deduplication key
Canonical(r) ==
  IF loadType = "sessions.csv"
  THEN [sessionId |-> r.sessionId, branch |-> r.branch, startedAt |-> <<r.startedAt>>,
        endedAt |-> <<r.endedAt>>, turns |-> <<r.turns>>, cost |-> <<r.cost>>,
        interruptedTurns |-> <<r.interruptedTurns>>]
  ELSE [sessionId |-> r.sessionId, totalTokens |-> <<r.totalTokens>>]

KeyOf(r) ==
  IF loadType = "sessions.csv"
  THEN r.sessionId \o <<"_">> \o r.branch \o <<"_">> \o ToDigits(r.startedAt)
       \o <<"_">> \o ToDigits(r.endedAt)
  ELSE r.sessionId \o <<"_">> \o r.turnNumber \o <<"_">> \o r.messageId

\* the lines the loop has been over
LinesDone == 2..(lineIdx - 1)

\* line i is the record r exported in the schema
Exports(i, r, schema) == sourceLines[i] = LineOf(r, schema)

\* how many of the loaded entries hold the canonical values of r
Copies(r) == Cardinality({k \in DOMAIN loaded : loaded[k] = Canonical(r)})

\* the second column tells the schema of the record's lines: its agent id
\* starts with agent_ and its user id does not
Telling(r) ==
  /\ Len(r.agent) >= 6 /\ SubSeq(r.agent, 1, 6) = <<"a","g","e","n","t","_">>
  /\ ~(Len(r.user) >= 6 /\ SubSeq(r.user, 1, 6) = <<"a","g","e","n","t","_">>)

C27_HeaderCopiesSkipped ==
  \A s \in 1..(srcIdx - 1) :
    sources[s].exists =>
      /\ \A i \in DOMAIN allRows : allRows[i] # trim(sources[s].header)
      /\ \A i \in 2..Len(output) : output[i] # trim(sources[s].header)

\* two requests to the service with no other request to it between them
Consecutive(service, i, j) ==
  /\ i < j
  /\ calls[i] = service
  /\ calls[j] = service
  /\ \A k \in (i + 1)..(j - 1) : calls[k] # service

\* C28: between any two consecutive requests to the issue tracker, and
\* between any two consecutive requests to the code-quality scanner, a sleep
\* is executed.
C28_SleepBetweenRequests ==
  \A service \in {"jira", "sonar"} : \A i, j \in DOMAIN calls :
    Consecutive(service, i, j) => \E k \in (i + 1)..(j - 1) : calls[k] = "sleep"

\* the time between the last successful fetch and the last call
Elapsed == lastCall.at - lastCall.priorAt[1]

\* C29: a call of fetchAllPRs fetches only when no list was stored or at
\* least CACHE_TTL has passed since the last successful fetch; a call made
\* less than CACHE_TTL after that fetch returns the stored list without
\* fetching; a fetch that throws leaves the cached list and the cache
\* timestamp as they were.
C29_CacheServesWithinTTL ==
  lastCall # << >> =>
    /\ lastCall.fetched =>
         (lastCall.priorStored = Null \/ Elapsed >= 5 * 60 * 1000)
    /\ (lastCall.priorStored # Null /\ Elapsed < 5 * 60 * 1000) =>
         (~lastCall.fetched /\ lastCall.result = lastCall.priorStored)
    /\ lastCall.threw =>
         (cachedPRs = lastCall.cacheBefore /\ cacheTimestamp = lastCall.stampBefore)

\* a call one millisecond before expiry is served the stored list
C29_Witness ==
  /\ lastCall # << >>
  /\ lastCall.priorStored = Some(<<1, 2>>)
  /\ Elapsed = 5 * 60 * 1000 - 1
  /\ ~lastCall.fetched
  /\ lastCall.result = Some(<<1, 2>>)

====
